---------------------------- MODULE Spec2Model ----------------------------
(***************************************************************************)
(* Verification model of the KHARMA finite-volume core:                    *)
(*   - constrained transport of the magnetic field (B_FluxCT::FluxCT,      *)
(*     FluxCT2D, FixPolarFlux, TransportB, MaxDivB), per block and         *)
(*     mesh-wide;                                                          *)
(*   - the first-order flux correction (Flux::FOFC);                       *)
(*   - the helpers around them: VarMap, GetPhysicalZones, the execution    *)
(*     trace Flag / EndFlag, the problem initialisers.                     *)
(*                                                                         *)
(* Real numbers are held in fixed point: the integer x stands for the real *)
(* x / Unit.  Every value the flux engine produces is a multiple of Unit,  *)
(* so the factors 0.25 and 0.5 of the scheme are exact integer divisions.  *)
(* Floating-point rounding is therefore outside the model.                 *)
(***************************************************************************)
EXTENDS Integers, Naturals, Sequences, FiniteSets, TLC

VARIABLES
    ndim,           \* pmesh->ndim
    nblocks,        \* md->NumBlocks()
    boundary_flag,  \* pmb->boundary_flag[inner_x2 / outer_x2], per block
    pin,            \* the input file: keys of block <b_field>
    params,         \* the B_FluxCT package parameters set by Initialize
    fuse,           \* the build option FUSE_EMF_KERNELS
    F,              \* cons.B fluxes: F[b][dir][comp][k][j][i]
    F0,             \* the fluxes as the flux engine left them
    Fin,            \* the fluxes as they were handed to FluxCT
    B,              \* cons.B: B[b][comp][k][j][i]
    Bpre,           \* cons.B before the conservative update
    pc,             \* position of the transport step
    via,            \* entry point taken: "block", "mesh", "skipped", "none"
    fixed,          \* FixPolarFlux has run in this step
    status,         \* TaskStatus returned by the last task
    oob,            \* some kernel touched an index outside the block
    fflag,          \* floor flag of the trial update: fflag[b][k][j][i]
    pflag,          \* inversion flag of the trial update
    fofcflag,       \* cells whose faces get the first-order flux
    P,              \* cell-centred primitives: P[b][k][j][i]
    Uflux,          \* U_all(b).flux(dir, ip, k, j, i): Uflux[b][dir][k][j][i]
    Pl, Pr,         \* Flux.Pl, Flux.Pr: [b][k][j][i]
    Ul, Ur,         \* Flux.Ul, Flux.Ur
    Fl, Fr,         \* Flux.Fl, Flux.Fr
    cmax, cmin,     \* Flux.cmax, Flux.cmin: [b][dir][k][j][i]
    Uflux0,         \* the fluxes at the entry of the last Flux::FOFC call
    fofcflag0,      \* fofcflag at the entry of the last Flux::FOFC call
    fpc,            \* position of the substep around Flux::FOFC
    ncalls,         \* calls of Flux::FOFC so far
    kidx,           \* the kernel of Flux::FOFC now on the device
    todo,           \* iterations of that kernel not yet executed
    dec,            \* the decisions taken by the face iterations so far
    name_map,       \* the PackIndexMap handed to the VarMap constructor
    is_cons,        \* the second argument of the VarMap constructor
    m,              \* the VarMap object: its int8_t fields
    launch,         \* the par_for kernel whose accesses are being recorded
    iters,          \* iterations of that kernel not yet recorded
    wlog,           \* storage locations written by the recorded iterations
    rlog,           \* storage locations read by the recorded iterations
    domain,         \* the IndexDomain given to MaxDivB
    max_divb,       \* the value MaxDivB returned
    divreads,       \* the cells of cons.B the reduction has read
    face_flag,      \* pmb->boundary_flag of the six faces of a block
    zones,          \* the IndexRange3 GetPhysicalZones returned
    indent,         \* kharma_debug_trace_indent
    indent0,        \* its value when tracing began
    mutex,          \* kharma_debug_trace_mutex
    tpc,            \* position of each thread inside Flag / EndFlag
    tfn,            \* the function each thread is in: "Flag" or "EndFlag"
    depth,          \* Flag calls of each thread not yet matched by EndFlag
    tabfill,        \* spaces stored into tab by the last print, -1 before
    unmatched,      \* some EndFlag was called with no Flag open
    prob,           \* the problem being initialised
    do_BG,          \* parameter do_BG of package B_FluxCT
    ppin,           \* the problem's keys of the input file
    pkgparams,      \* the package parameters the initialisers add
    nadd,           \* Add / AddParam calls executed so far, per key
    thrown,         \* an Add met a key that already exists
    ninit           \* problem initialiser calls so far (one per block)

\* the configuration of a run: never changes after construction
cfgvars == <<ndim, nblocks, boundary_flag, pin, params, fuse>>

ctvars == <<cfgvars, F, F0, Fin, B, Bpre, pc, via, fixed, status, oob>>

fofcvars == <<fflag, pflag, fofcflag, P, Uflux, Pl, Pr, Ul, Ur, Fl, Fr, cmax, cmin,
              Uflux0, fofcflag0, fpc, ncalls, kidx, todo, dec>>

vmvars == <<name_map, is_cons, m>>

racevars == <<launch, iters, wlog, rlog>>

diagvars == <<domain, max_divb, divreads>>

zonevars == <<face_flag, zones>>

tracevars == <<indent, indent0, mutex, tpc, tfn, depth, tabfill, unmatched>>

probvars == <<prob, do_BG, ppin, pkgparams, nadd, thrown, ninit>>

morevars == <<zonevars, tracevars, probvars>>

auxvars == <<vmvars, racevars, diagvars, morevars>>

vars == <<ctvars, fofcvars, auxvars>>

---------------------------------------------------------------------------
(* Bounds of the model *)

\* interior cells per active direction
NX == 2
\* ghost cells per side of an active direction (KHARMA runs with 4)
NG == 4
\* blocks of the mesh
MaxBlocks == 2
\* number of distinct flux fields the flux engine is made to produce
MaxSeed == 3

\* threads that trace, and Flag calls a thread may have open
MaxThreads == 2
MaxDepth == 3
\* blocks a problem initialiser is called for
MaxInit == 3

\* fixed-point scale: 0.25 * 0.5 * 0.25 of a multiple of Unit is an integer
Unit == 2 * 2 * 2 * 2 * 2

---------------------------------------------------------------------------
(* Components of the magnetic field inside the cons.B pack *)
B1 == 0
B2 == 1
B3 == 2

---------------------------------------------------------------------------
(* Index shape of a block: pmb->cellbounds *)

\* ncellsi/j/k(IndexDomain::entire)
n1 == NX + 2 * NG
n2 == IF ndim > 1 THEN NX + 2 * NG ELSE 1
n3 == IF ndim > 2 THEN NX + 2 * NG ELSE 1

\* is/ie, js/je, ks/ke of IndexDomain::interior
is == NG
ie == NG + NX - 1
js == IF ndim > 1 THEN NG ELSE 0
je == IF ndim > 1 THEN NG + NX - 1 ELSE 0
ks == IF ndim > 2 THEN NG ELSE 0
ke == IF ndim > 2 THEN NG + NX - 1 ELSE 0

II == 0 .. (n1 - 1)
JJ == 0 .. (n2 - 1)
KK == 0 .. (n3 - 1)
Blocks == 0 .. (nblocks - 1)
Comps == {B1, B2, B3}
Dirs == 1 .. ndim

InBox(k, j, i, klo, khi, jlo, jhi, ilo, ihi) ==
    /\ klo <= k /\ k <= khi
    /\ jlo <= j /\ j <= jhi
    /\ ilo <= i /\ i <= ihi

\* 0.25 * x and 0.5 * x in fixed point
Mul025(x) == x \div 4
Mul05(x) == x \div 2

Abs(x) == IF x < 0 THEN -x ELSE x

\* A freshly allocated, zero-initialised GridScalar of the block's size
ZeroScalar == [k \in KK |-> [j \in JJ |-> [i \in II |-> 0]]]


---------------------------------------------------------------------------
(* B_FluxCT::FluxCT(MeshBlockData), b_flux_ct.cpp: the 3D kernels.        *)
(* Fb is the flux of cons.B on one block: Fb[dir][comp][k][j][i].          *)

\* kernel "flux_ct_emf": emf3
Emf3_3D(Fb) ==
    [k \in KK |-> [j \in JJ |-> [i \in II |->
        IF InBox(k, j, i, ks, ke + 1, js, je + 1, is, ie + 1)
        THEN Mul025(Fb[1][B2][k][j][i] + Fb[1][B2][k][j-1][i]
                    - Fb[2][B1][k][j][i] - Fb[2][B1][k][j][i-1])
        ELSE 0]]]

\* kernel "flux_ct_emf": emf2
Emf2_3D(Fb) ==
    [k \in KK |-> [j \in JJ |-> [i \in II |->
        IF InBox(k, j, i, ks, ke + 1, js, je + 1, is, ie + 1)
        THEN -Mul025(Fb[1][B3][k][j][i] + Fb[1][B3][k-1][j][i]
                     - Fb[3][B1][k][j][i] - Fb[3][B1][k][j][i-1])
        ELSE 0]]]

\* kernel "flux_ct_emf": emf1
Emf1_3D(Fb) ==
    [k \in KK |-> [j \in JJ |-> [i \in II |->
        IF InBox(k, j, i, ks, ke + 1, js, je + 1, is, ie + 1)
        THEN Mul025(Fb[2][B3][k][j][i] + Fb[2][B3][k-1][j][i]
                    - Fb[3][B2][k][j][i] - Fb[3][B2][k][j-1][i])
        ELSE 0]]]

\* the value the rewrite kernels store into F1(comp, k, j, i)
\* a faulty variant: the kernel forgets to store 0 into F1(B1)
NewF1_SelfFluxKept(Fb, comp, emf2, emf3, k, j, i) ==
    CASE comp = B1 -> Fb[1][B1][k][j][i]
      [] comp = B2 -> Mul05(emf3[k][j][i] + emf3[k][j+1][i])
      [] comp = B3 -> -Mul05(emf2[k][j][i] + emf2[k+1][j][i])

NewF1(Fb, comp, emf2, emf3, k, j, i) ==
    CASE comp = B1 -> 0
      [] comp = B2 -> Mul05(emf3[k][j][i] + emf3[k][j+1][i])
      [] comp = B3 -> -Mul05(emf2[k][j][i] + emf2[k+1][j][i])

\* a faulty variant: F2(B1) with the sign of F1(B2)
NewF2_SignError(Fb, comp, emf1, emf3, k, j, i) ==
    CASE comp = B1 -> Mul05(emf3[k][j][i] + emf3[k][j][i+1])
      [] comp = B2 -> 0
      [] comp = B3 -> Mul05(emf1[k][j][i] + emf1[k+1][j][i])

\* the value the rewrite kernels store into F2(comp, k, j, i)
NewF2(Fb, comp, emf1, emf3, k, j, i) ==
    CASE comp = B1 -> -Mul05(emf3[k][j][i] + emf3[k][j][i+1])
      [] comp = B2 -> 0
      [] comp = B3 -> Mul05(emf1[k][j][i] + emf1[k+1][j][i])

\* the value the rewrite kernels store into F3(comp, k, j, i)
NewF3(Fb, comp, emf1, emf2, k, j, i) ==
    CASE comp = B1 -> Mul05(emf2[k][j][i] + emf2[k][j][i+1])
      [] comp = B2 -> -Mul05(emf1[k][j][i] + emf1[k][j+1][i])
      [] comp = B3 -> 0

\* the index boxes of the rewrite kernels: "flux_ct_all" when the kernels
\* are fused, "flux_ct_1", "flux_ct_2", "flux_ct_3" otherwise
InCT1(k, j, i) ==
    IF fuse THEN InBox(k, j, i, ks, ke + 1, js, je + 1, is, ie + 1)
            ELSE InBox(k, j, i, ks, ke, js, je, is, ie + 1)
InCT2(k, j, i) ==
    IF fuse THEN InBox(k, j, i, ks, ke + 1, js, je + 1, is, ie + 1)
            ELSE InBox(k, j, i, ks, ke, js, je + 1, is, ie)
InCT3(k, j, i) ==
    IF fuse THEN InBox(k, j, i, ks, ke + 1, js, je + 1, is, ie + 1)
            ELSE InBox(k, j, i, ks, ke + 1, js, je, is, ie)

FluxCT3D(Fb) ==
    LET emf1 == Emf1_3D(Fb)
        emf2 == Emf2_3D(Fb)
        emf3 == Emf3_3D(Fb)
    IN  [dir \in Dirs |-> [comp \in Comps |-> [k \in KK |-> [j \in JJ |-> [i \in II |->
            CASE dir = 1 -> IF InCT1(k, j, i) THEN NewF1(Fb, comp, emf2, emf3, k, j, i)
                                              ELSE Fb[1][comp][k][j][i]
              [] dir = 2 -> IF InCT2(k, j, i) THEN NewF2(Fb, comp, emf1, emf3, k, j, i)
                                              ELSE Fb[2][comp][k][j][i]
              [] dir = 3 -> IF InCT3(k, j, i) THEN NewF3(Fb, comp, emf1, emf2, k, j, i)
                                              ELSE Fb[3][comp][k][j][i]]]]]]

---------------------------------------------------------------------------
(* B_FluxCT::FluxCT2D, b_flux_ct.cpp: one emf(j, i), everything at k = 0   *)

\* kernel "flux_ct_emf" of FluxCT2D
Emf2D(Fb) ==
    [j \in JJ |-> [i \in II |->
        IF InBox(0, j, i, 0, 0, js, je + 1, is, ie + 1)
        THEN Mul025(Fb[1][B2][0][j][i] + Fb[1][B2][0][j-1][i]
                    - Fb[2][B1][0][j][i] - Fb[2][B1][0][j][i-1])
        ELSE 0]]

InCT1_2D(j, i) ==
    IF fuse THEN InBox(0, j, i, 0, 0, js, je + 1, is, ie + 1)
            ELSE InBox(0, j, i, 0, 0, js, je, is, ie + 1)
InCT2_2D(j, i) ==
    IF fuse THEN InBox(0, j, i, 0, 0, js, je + 1, is, ie + 1)
            ELSE InBox(0, j, i, 0, 0, js, je + 1, is, ie)

\* F1(B1) = 0, F1(B2) = 0.5 * (emf(j,i) + emf(j+1,i)); B3 is not touched
NewF1_2D(Fb, comp, emf, k, j, i) ==
    CASE comp = B1 -> 0
      [] comp = B2 -> Mul05(emf[j][i] + emf[j+1][i])
      [] comp = B3 -> Fb[1][B3][k][j][i]

\* F2(B1) = -0.5 * (emf(j,i) + emf(j,i+1)), F2(B2) = 0; B3 is not touched
NewF2_2D(Fb, comp, emf, k, j, i) ==
    CASE comp = B1 -> -Mul05(emf[j][i] + emf[j][i+1])
      [] comp = B2 -> 0
      [] comp = B3 -> Fb[2][B3][k][j][i]

FluxCT2D(Fb) ==
    LET emf == Emf2D(Fb)
    IN  [dir \in Dirs |-> [comp \in Comps |-> [k \in KK |-> [j \in JJ |-> [i \in II |->
            CASE dir = 1 -> IF k = 0 /\ InCT1_2D(j, i)
                            THEN NewF1_2D(Fb, comp, emf, k, j, i)
                            ELSE Fb[1][comp][k][j][i]
              [] dir = 2 -> IF k = 0 /\ InCT2_2D(j, i)
                            THEN NewF2_2D(Fb, comp, emf, k, j, i)
                            ELSE Fb[2][comp][k][j][i]]]]]]

\* B_FluxCT::FluxCT(MeshBlockData): dispatch on the dimension
FluxCT(Fb) ==
    IF ndim = 2 THEN FluxCT2D(Fb)
    ELSE IF ndim = 1 THEN Fb
    ELSE FluxCT3D(Fb)

---------------------------------------------------------------------------
(* B_FluxCT::FixPolarFlux(MeshBlockData), b_flux_ct.cpp                    *)

je_e == IF ndim > 1 THEN je + 1 ELSE je
ke_e == IF ndim > 2 THEN ke + 1 ELSE ke

\* a faulty variant: the inner kernel only clears F2(B2) and reflects nothing
FixInner_NoMirror(Fb, alias) ==
    [dir \in Dirs |-> [comp \in Comps |-> [k \in KK |-> [j \in JJ |-> [i \in II |->
        IF k >= ks /\ k <= ke_e /\ i >= is /\ i <= ie + 1
           /\ dir = 2 /\ comp = B2 /\ j = js
        THEN 0
        ELSE Fb[dir][comp][k][j][i]]]]]]

\* kernel "fix_flux_b_l", over k in ks..ke_e, j = js, i in is..ie+1.
\* In 1D the row j-1 = -1 lies outside the block: the store F1(B2,k,-1,i)
\* is undefined behaviour.  In the contiguous (comp,k,j,i) layout it lands on
\* F1(B1,k,0,i) (alias = TRUE); otherwise it is lost (alias = FALSE).
FixInner(Fb, alias) ==
    [dir \in Dirs |-> [comp \in Comps |-> [k \in KK |-> [j \in JJ |-> [i \in II |->
        IF k >= ks /\ k <= ke_e /\ i >= is /\ i <= ie + 1
        THEN CASE dir = 1 /\ comp = B2 /\ j = js - 1 -> -Fb[1][B2][k][js][i]
               [] dir = 1 /\ comp = B1 /\ js - 1 < 0 /\ alias /\ j = js
                                                    -> -Fb[1][B2][k][js][i]
               [] dir = 2 /\ comp = B2 /\ j = js     -> 0
               [] dir = 3 /\ comp = B2 /\ j = js - 1 -> -Fb[3][B2][k][js][i]
               [] OTHER -> Fb[dir][comp][k][j][i]
        ELSE Fb[dir][comp][k][j][i]]]]]]

\* a faulty variant: the outer kernel runs on the last cell row j = je
\* instead of the pole face row je_e
FixOuter_WrongRow(Fb) ==
    [dir \in Dirs |-> [comp \in Comps |-> [k \in KK |-> [j \in JJ |-> [i \in II |->
        IF k >= ks /\ k <= ke_e /\ i >= is /\ i <= ie + 1 /\ j = je /\ comp = B2
        THEN CASE dir = 1 -> -Fb[1][B2][k][je][i]
               [] dir = 2 -> 0
               [] dir = 3 -> -Fb[3][B2][k][je][i]
        ELSE Fb[dir][comp][k][j][i]]]]]]

\* kernel "fix_flux_b_r", over k in ks..ke_e, j = je_e, i in is..ie+1
FixOuter(Fb) ==
    [dir \in Dirs |-> [comp \in Comps |-> [k \in KK |-> [j \in JJ |-> [i \in II |->
        IF k >= ks /\ k <= ke_e /\ i >= is /\ i <= ie + 1 /\ j = je_e /\ comp = B2
        THEN CASE dir = 1 -> -Fb[1][B2][k][je][i]
               [] dir = 2 -> 0
               [] dir = 3 -> -Fb[3][B2][k][je][i]
        ELSE Fb[dir][comp][k][j][i]]]]]]

\* a faulty variant: the outer kernel runs whatever the outer boundary is
FixPolarFlux_OuterAlways(Fb, flags, alias) ==
    LET afterInner == IF flags.inner_x2 = "user" THEN FixInner(Fb, alias) ELSE Fb
    IN  FixOuter(afterInner)

FixPolarFlux(Fb, flags, alias) ==
    LET afterInner == IF flags.inner_x2 = "user" THEN FixInner(Fb, alias) ELSE Fb
    IN  IF flags.outer_x2 = "user" THEN FixOuter(afterInner) ELSE afterInner

\* the inner kernel leaves the block exactly when the row js-1 does not exist
FixPolarFluxOutside(flags) == flags.inner_x2 = "user" /\ js - 1 < 0

---------------------------------------------------------------------------
(* B_FluxCT::FluxCT(MeshData), bondi.cpp: the mesh-wide variant            *)

\* the offset of il, jl, kl from the interior range
MeshHalo == 3

il_s == is - MeshHalo
il_e == ie + MeshHalo
jl_s == js - MeshHalo
jl_e == je + MeshHalo
kl_s == IF ndim > 2 THEN ks - MeshHalo ELSE ks
kl_e == IF ndim > 2 THEN ke + MeshHalo ELSE ke

InL(k, j, i) == InBox(k, j, i, kl_s, kl_e, jl_s, jl_e, il_s, il_e)

\* kernel "flux_ct_emf" of the mesh-wide variant: emf3
MeshEmf3(Fb) ==
    [k \in KK |-> [j \in JJ |-> [i \in II |->
        IF InL(k, j, i)
        THEN Mul025(Fb[1][B2][k][j][i] + Fb[1][B2][k][j-1][i]
                    - Fb[2][B1][k][j][i] - Fb[2][B1][k][j][i-1])
        ELSE 0]]]

\* emf2, computed only if ndim > 2
MeshEmf2(Fb) ==
    [k \in KK |-> [j \in JJ |-> [i \in II |->
        IF ndim > 2 /\ InL(k, j, i)
        THEN -Mul025(Fb[1][B3][k][j][i] + Fb[1][B3][k-1][j][i]
                     - Fb[3][B1][k][j][i] - Fb[3][B1][k][j][i-1])
        ELSE 0]]]

\* emf1, computed only if ndim > 2
MeshEmf1(Fb) ==
    [k \in KK |-> [j \in JJ |-> [i \in II |->
        IF ndim > 2 /\ InL(k, j, i)
        THEN Mul025(Fb[2][B3][k][j][i] + Fb[2][B3][k-1][j][i]
                    - Fb[3][B2][k][j][i] - Fb[3][B2][k][j-1][i])
        ELSE 0]]]

\* index boxes of "flux_ct_all" (fused) or "flux_ct_1/2/3"
MeshInCT1(k, j, i) ==
    IF fuse THEN InL(k, j, i)
            ELSE InBox(k, j, i, ks, ke, js, je, il_s, il_e)
MeshInCT2(k, j, i) ==
    IF fuse THEN InL(k, j, i)
            ELSE InBox(k, j, i, ks, ke, jl_s, jl_e, is, ie)
MeshInCT3(k, j, i) ==
    ndim > 2 /\ (IF fuse THEN InL(k, j, i)
                         ELSE InBox(k, j, i, kl_s, kl_e, js, je, is, ie))

\* the B3 fluxes are rewritten only if ndim > 2
MeshNewF1(Fb, comp, emf2, emf3, k, j, i) ==
    CASE comp = B1 -> 0
      [] comp = B2 -> Mul05(emf3[k][j][i] + emf3[k][j+1][i])
      [] comp = B3 -> IF ndim > 2 THEN -Mul05(emf2[k][j][i] + emf2[k+1][j][i])
                                  ELSE Fb[1][B3][k][j][i]

MeshNewF2(Fb, comp, emf1, emf3, k, j, i) ==
    CASE comp = B1 -> -Mul05(emf3[k][j][i] + emf3[k][j][i+1])
      [] comp = B2 -> 0
      [] comp = B3 -> IF ndim > 2 THEN Mul05(emf1[k][j][i] + emf1[k+1][j][i])
                                  ELSE Fb[2][B3][k][j][i]

MeshNewF3(Fb, comp, emf1, emf2, k, j, i) ==
    CASE comp = B1 -> Mul05(emf2[k][j][i] + emf2[k][j][i+1])
      [] comp = B2 -> -Mul05(emf1[k][j][i] + emf1[k][j+1][i])
      [] comp = B3 -> 0

\* the work of the mesh-wide kernels on block b
MeshFluxCTBlock(Fb) ==
    LET emf1 == MeshEmf1(Fb)
        emf2 == MeshEmf2(Fb)
        emf3 == MeshEmf3(Fb)
    IN  [dir \in Dirs |-> [comp \in Comps |-> [k \in KK |-> [j \in JJ |-> [i \in II |->
            CASE dir = 1 -> IF MeshInCT1(k, j, i)
                            THEN MeshNewF1(Fb, comp, emf2, emf3, k, j, i)
                            ELSE Fb[1][comp][k][j][i]
              [] dir = 2 -> IF MeshInCT2(k, j, i)
                            THEN MeshNewF2(Fb, comp, emf1, emf3, k, j, i)
                            ELSE Fb[2][comp][k][j][i]
              [] dir = 3 -> IF MeshInCT3(k, j, i)
                            THEN MeshNewF3(Fb, comp, emf1, emf2, k, j, i)
                            ELSE Fb[3][comp][k][j][i]]]]]]

MeshFluxCT(Fm) ==
    IF ndim < 2 THEN Fm
    ELSE [b \in Blocks |-> MeshFluxCTBlock(Fm[b])]

---------------------------------------------------------------------------
(* B_FluxCT::FixPolarFlux(MeshData), bondi.cpp: index ranges of block 0,   *)
(* boundary flags of each block of pmesh->block_list                       *)

\* kernel "fix_flux_b_l" on one block of the list
MeshFixInner(Fb, alias) ==
    [dir \in Dirs |-> [comp \in Comps |-> [k \in KK |-> [j \in JJ |-> [i \in II |->
        IF k >= ks /\ k <= ke_e /\ i >= is /\ i <= ie + 1
        THEN CASE dir = 1 /\ comp = B2 /\ j = js - 1 -> -Fb[1][B2][k][js][i]
               [] dir = 1 /\ comp = B1 /\ js - 1 < 0 /\ alias /\ j = js
                                                    -> -Fb[1][B2][k][js][i]
               [] dir = 2 /\ comp = B2 /\ j = js     -> 0
               [] dir = 3 /\ comp = B2 /\ j = js - 1 -> -Fb[3][B2][k][js][i]
               [] OTHER -> Fb[dir][comp][k][j][i]
        ELSE Fb[dir][comp][k][j][i]]]]]]

\* kernel "fix_flux_b_r" on one block of the list
MeshFixOuter(Fb) ==
    [dir \in Dirs |-> [comp \in Comps |-> [k \in KK |-> [j \in JJ |-> [i \in II |->
        IF k >= ks /\ k <= ke_e /\ i >= is /\ i <= ie + 1 /\ j = je_e /\ comp = B2
        THEN CASE dir = 1 -> -Fb[1][B2][k][je][i]
               [] dir = 2 -> 0
               [] dir = 3 -> -Fb[3][B2][k][je][i]
        ELSE Fb[dir][comp][k][j][i]]]]]]

MeshFixPolarFlux(Fm, flags, alias) ==
    [b \in Blocks |->
        LET afterInner == IF flags[b].inner_x2 = "user"
                          THEN MeshFixInner(Fm[b], alias) ELSE Fm[b]
        IN  IF flags[b].outer_x2 = "user" THEN MeshFixOuter(afterInner)
                                          ELSE afterInner]

---------------------------------------------------------------------------
(* B_FluxCT::Initialize: the parameters read from the input file           *)

\* pin->GetOrAddBoolean(block, key, default); value is "unset", "true", "false"
GetOrAddBoolean(value, default) == IF value = "unset" THEN default ELSE value = "true"

\* a faulty variant: disable_flux_ct is read but its default is stored
Initialize_DisableIgnored(input) ==
    [fix_polar_flux  |-> GetOrAddBoolean(input.fix_polar_flux, TRUE),
     disable_flux_ct |-> FALSE]

Initialize(input) ==
    [fix_polar_flux  |-> GetOrAddBoolean(input.fix_polar_flux, TRUE),
     disable_flux_ct |-> GetOrAddBoolean(input.disable_flux_ct, FALSE)]

---------------------------------------------------------------------------
(* The surroundings of the transport step: the flux engine that fills the  *)
(* fluxes, the initial field, the conservative update of the driver.       *)

\* a dense field of small integers, different for every seed
Pat(seed, b, dir, comp, k, j, i) ==
    ((seed * 7 + b * 3 + dir * 5 + comp * 11 + k * 13 + j * 17 + i * 19
      + i * j * seed + j * k + k * i * dir + comp * i * i) % 5) - 2

\* what the flux engine leaves in the flux slots of cons.B
RawFlux(seed) ==
    [b \in Blocks |-> [dir \in Dirs |-> [comp \in Comps |-> [k \in KK |->
        [j \in JJ |-> [i \in II |-> Unit * Pat(seed, b, dir, comp, k, j, i)]]]]]]

\* the same for a flux engine whose X2 faces on the pole rows js and je+1
\* carry no F2(B1) and no F2(B3), as reflecting polar boundaries give
PoleFlux(seed) ==
    [b \in Blocks |-> [dir \in Dirs |-> [comp \in Comps |-> [k \in KK |->
        [j \in JJ |-> [i \in II |->
            IF dir = 2 /\ comp \in {B1, B3} /\ j \in {js, je + 1}
            THEN 0
            ELSE Unit * Pat(seed, b, dir, comp, k, j, i)]]]]]]

\* the fluxes a substep may start from
FluxFields == {RawFlux(seed) : seed \in 1 .. MaxSeed} \cup {PoleFlux(MaxSeed)}

\* initial cons.B, with zero corner-centred divergence: d1 B1 = 2,
\* d2 B2 = -2, d3 B3 = 0
InitB ==
    [b \in Blocks |-> [comp \in Comps |-> [k \in KK |-> [j \in JJ |-> [i \in II |->
        Unit * (CASE comp = B1 -> 2 * i + j * j + b
                  [] comp = B2 -> i - 2 * j + k
                  [] comp = B3 -> i * j)]]]]]

\* flux of direction dir, or 0 where the problem has no such direction
FluxOr0(Fb, dir, comp, k, j, i) ==
    IF dir <= ndim THEN Fb[dir][comp][k][j][i] ELSE 0

\* the conservative update of the interior cells with dt = dx1 = dx2 = dx3 = 1:
\* B -= dt * (dF1/dx1 + dF2/dx2 + dF3/dx3)
FluxDivergenceUpdate(Bm, Fm) ==
    [b \in Blocks |-> [comp \in Comps |-> [k \in KK |-> [j \in JJ |-> [i \in II |->
        IF InBox(k, j, i, ks, ke, js, je, is, ie)
        THEN Bm[b][comp][k][j][i]
             - (Fm[b][1][comp][k][j][i+1] - Fm[b][1][comp][k][j][i])
             - (IF ndim > 1 THEN Fm[b][2][comp][k][j+1][i] - Fm[b][2][comp][k][j][i]
                            ELSE 0)
             - (IF ndim > 2 THEN Fm[b][3][comp][k+1][j][i] - Fm[b][3][comp][k][j][i]
                            ELSE 0)
        ELSE Bm[b][comp][k][j][i]]]]]]

---------------------------------------------------------------------------
(* B_FluxCT::MaxDivB(MeshData, IndexDomain::interior), b_flux_ct.cpp       *)

SetMax(S) == CHOOSE x \in S : \A y \in S : y <= x

\* norm * term, with norm = 0.25 in 3D and 0.5 in 2D
Norm(x) == IF ndim > 2 THEN Mul025(x) ELSE Mul05(x)

\* local_divb at corner (k, j, i) of block b, for unit cell widths
LocalDivB(Bb, k, j, i) ==
    LET t1a == Bb[B1][k][j][i] + Bb[B1][k][j-1][i]
               - Bb[B1][k][j][i-1] - Bb[B1][k][j-1][i-1]
        t2a == Bb[B2][k][j][i] + Bb[B2][k][j][i-1]
               - Bb[B2][k][j-1][i] - Bb[B2][k][j-1][i-1]
        term1 == IF ndim > 2
                 THEN t1a + Bb[B1][k-1][j][i] + Bb[B1][k-1][j-1][i]
                          - Bb[B1][k-1][j][i-1] - Bb[B1][k-1][j-1][i-1]
                 ELSE t1a
        term2 == IF ndim > 2
                 THEN t2a + Bb[B2][k-1][j][i] + Bb[B2][k-1][j][i-1]
                          - Bb[B2][k-1][j-1][i] - Bb[B2][k-1][j-1][i-1]
                 ELSE t2a
        term3 == IF ndim > 2
                 THEN Bb[B3][k][j][i] + Bb[B3][k][j-1][i]
                      + Bb[B3][k][j][i-1] + Bb[B3][k][j-1][i-1]
                      - Bb[B3][k-1][j][i] - Bb[B3][k-1][j-1][i]
                      - Bb[B3][k-1][j][i-1] - Bb[B3][k-1][j-1][i-1]
                 ELSE 0
    IN  Abs(Norm(term1) + Norm(term2) + Norm(term3))

\* the corners the reduction runs over: is+1..ie, js+1..je, ks(+1 in 3D)..ke
DivCorners ==
    {c \in KK \X JJ \X II :
        InBox(c[1], c[2], c[3], IF ndim > 2 THEN ks + 1 ELSE ks, ke, js + 1, je, is + 1, ie)}

MaxDivB(Bm) ==
    IF ndim < 2 THEN 0
    ELSE SetMax({LocalDivB(Bm[b], c[1], c[2], c[3]) : b \in Blocks, c \in DivCorners})

---------------------------------------------------------------------------
(* The transport step as a state machine *)

\* input files: each key is left unset or set against its default
Pins == [fix_polar_flux : {"unset", "false"}, disable_flux_ct : {"unset", "true"}]

\* boundary flags of the X2 faces of the blocks of a mesh: one block with any
\* pair of flags, or two blocks stacked along X2, joined by a block boundary
Column(nb, edge) ==
    [b \in 1 .. nb |-> [inner_x2 |-> IF b = 1 THEN edge ELSE "block",
                        outer_x2 |-> IF b = nb THEN edge ELSE "block"]]

MeshLayouts ==
    {<<[inner_x2 |-> a, outer_x2 |-> c]>> : a \in {"user", "outflow"}, c \in {"user", "outflow"}}
    \cup {Column(nb, edge) : nb \in 2 .. MaxBlocks, edge \in {"user", "periodic"}}

\* the flux correction is not part of the transport step
FOFCIdle ==
    /\ fflag = <<>> /\ pflag = <<>> /\ fofcflag = <<>> /\ P = <<>>
    /\ Uflux = <<>> /\ Pl = <<>> /\ Pr = <<>> /\ Ul = <<>> /\ Ur = <<>>
    /\ Fl = <<>> /\ Fr = <<>> /\ cmax = <<>> /\ cmin = <<>>
    /\ Uflux0 = <<>> /\ fofcflag0 = <<>>
    /\ fpc = "idle" /\ ncalls = 0 /\ kidx = 0 /\ todo = {} /\ dec = {}

\* no VarMap is under construction
VarMapIdle == name_map = <<>> /\ is_cons = FALSE /\ m = <<>>

\* no kernel is being recorded
NoLaunch == [fn |-> "none", label |-> "none", dir |-> 0, alias |-> FALSE]
RaceIdle == launch = NoLaunch /\ iters = {} /\ wlog = {} /\ rlog = {}

\* MaxDivB has not been called
DiagIdle == domain = "none" /\ max_divb = 0 /\ divreads = {}

\* GetPhysicalZones has not been called
ZonesIdle == face_flag = <<>> /\ zones = <<>>

\* no thread traces
TraceIdle ==
    /\ indent = 0 /\ indent0 = 0 /\ mutex = 0 /\ tpc = <<>> /\ tfn = <<>> /\ depth = <<>>
    /\ tabfill = -1 /\ unmatched = FALSE

\* no problem is being initialised
ProbIdle ==
    /\ prob = "none" /\ do_BG = FALSE /\ ppin = <<>> /\ pkgparams = {}
    /\ nadd = <<>> /\ thrown = FALSE /\ ninit = 0

MoreIdle == ZonesIdle /\ TraceIdle /\ ProbIdle

AuxIdle == VarMapIdle /\ RaceIdle /\ DiagIdle /\ MoreIdle

Init ==
    /\ ndim \in 1 .. 3
    /\ \E layout \in MeshLayouts :
          /\ nblocks = Len(layout)
          /\ boundary_flag = [b \in 0 .. (Len(layout) - 1) |-> layout[b + 1]]
    /\ pin \in Pins
    /\ params = Initialize(pin)
    /\ fuse \in BOOLEAN
    /\ B = InitB
    /\ Bpre = B
    /\ F = [b \in Blocks |-> [dir \in Dirs |-> [comp \in Comps |-> ZeroScalar]]]
    /\ F0 = F
    /\ Fin = F
    /\ pc = "fluxes"
    /\ via = "none"
    /\ fixed = FALSE
    /\ status = "none"
    /\ oob = FALSE
    /\ FOFCIdle
    /\ AuxIdle

\* the flux engine has filled the fluxes of this substep
GetFlux ==
    /\ pc = "fluxes"
    /\ F' \in FluxFields
    /\ F0' = F'
    /\ pc' = "driver"
    /\ UNCHANGED <<auxvars, fofcvars, cfgvars, Fin, B, Bpre, via, fixed, status, oob>>

\* the driver reaches the transport of B: with disable_flux_ct it adds no
\* transport task, otherwise it runs TransportB per block or mesh-wide
DriverTransport ==
    /\ pc = "driver"
    /\ IF params.disable_flux_ct
       THEN pc' = "transported" /\ via' = "skipped"
       ELSE \E v \in {"block", "mesh"} : via' = v /\ pc' = "TransportB"
    /\ UNCHANGED <<auxvars, fofcvars, cfgvars, F, F0, Fin, B, Bpre, fixed, status, oob>>

\* TransportB(MeshBlockData), first statement, on every block of the mesh
BlockTransportB_Fix ==
    /\ pc = "TransportB" /\ via = "block"
    /\ IF params.fix_polar_flux
       THEN /\ \E alias \in BOOLEAN :
                 F' = [b \in Blocks |-> FixPolarFlux(F[b], boundary_flag[b], alias)]
            /\ fixed' = TRUE
            /\ oob' = (oob \/ \E b \in Blocks : FixPolarFluxOutside(boundary_flag[b]))
       ELSE UNCHANGED <<F, fixed, oob>>
    /\ pc' = "FluxCT"
    /\ UNCHANGED <<auxvars, fofcvars, cfgvars, F0, Fin, B, Bpre, via, status>>

\* TransportB(MeshBlockData), second statement, on every block of the mesh
BlockTransportB_CT ==
    /\ pc = "FluxCT" /\ via = "block"
    /\ Fin' = F
    /\ F' = [b \in Blocks |-> FluxCT(F[b])]
    /\ status' = "complete"
    /\ pc' = "transported"
    /\ UNCHANGED <<auxvars, fofcvars, cfgvars, F0, B, Bpre, via, fixed, oob>>

\* TransportB(MeshData), first statement
MeshTransportB_Fix ==
    /\ pc = "TransportB" /\ via = "mesh"
    /\ IF params.fix_polar_flux
       THEN /\ \E alias \in BOOLEAN : F' = MeshFixPolarFlux(F, boundary_flag, alias)
            /\ fixed' = TRUE
            /\ oob' = (oob \/ \E b \in Blocks : FixPolarFluxOutside(boundary_flag[b]))
       ELSE UNCHANGED <<F, fixed, oob>>
    /\ pc' = "FluxCT"
    /\ UNCHANGED <<auxvars, fofcvars, cfgvars, F0, Fin, B, Bpre, via, status>>

\* TransportB(MeshData), second statement
MeshTransportB_CT ==
    /\ pc = "FluxCT" /\ via = "mesh"
    /\ Fin' = F
    /\ F' = MeshFluxCT(F)
    /\ status' = "complete"
    /\ pc' = "transported"
    /\ UNCHANGED <<auxvars, fofcvars, cfgvars, F0, B, Bpre, via, fixed, oob>>

\* the driver applies the flux divergence to cons.B
Update ==
    /\ pc = "transported"
    /\ Bpre' = B
    /\ B' = FluxDivergenceUpdate(B, F)
    /\ pc' = "updated"
    /\ UNCHANGED <<auxvars, fofcvars, cfgvars, F, F0, Fin, via, fixed, status, oob>>

Next ==
    \/ GetFlux
    \/ DriverTransport
    \/ BlockTransportB_Fix
    \/ BlockTransportB_CT
    \/ MeshTransportB_Fix
    \/ MeshTransportB_CT
    \/ Update

Spec == Init /\ [][Next]_vars

---------------------------------------------------------------------------
(* Properties of the transport step *)

\* the transport step has rewritten the fluxes through FluxCT
CTDone == pc \in {"transported", "updated"} /\ via \in {"block", "mesh"}

\* C1: after FluxCT on a problem of dimension >= 2 (FluxCT2D, the per-block
\* 3D kernels or the mesh-wide variant), the flux of each field component
\* along its own axis is 0 at every face of the interior cells, whatever the
\* flux engine had stored there: F1(B1) = 0, F2(B2) = 0 and in 3D F3(B3) = 0.
SelfFluxZero ==
    (CTDone /\ ndim >= 2) =>
        \A b \in Blocks :
            /\ \A k \in ks .. ke, j \in js .. je, i \in is .. (ie + 1) :
                    F[b][1][B1][k][j][i] = 0
            /\ \A k \in ks .. ke, j \in js .. (je + 1), i \in is .. ie :
                    F[b][2][B2][k][j][i] = 0
            /\ ndim > 2 =>
                 \A k \in ks .. (ke + 1), j \in js .. je, i \in is .. ie :
                    F[b][3][B3][k][j][i] = 0

\* a 3D block whose self-fluxes were not zero before FluxCT and are zero after
SelfFluxZeroWitness ==
    /\ pc = "transported" /\ via = "block" /\ ndim = 3
    /\ \E b \in Blocks :
          /\ F0[b][1][B1][ks][js][is] # 0
          /\ F0[b][2][B2][ks][je + 1][ie] # 0
          /\ F0[b][3][B3][ke + 1][je][ie] # 0
          /\ F[b][1][B1][ks][js][is] = 0
          /\ F[b][2][B2][ks][je + 1][ie] = 0
          /\ F[b][3][B3][ke + 1][je][ie] = 0

\* the EMFs the emf kernel of the path taken computed on block b from the
\* fluxes it was handed
Emf3At(b, k, j, i) ==
    IF via = "mesh" THEN MeshEmf3(Fin[b])[k][j][i]
    ELSE IF ndim = 2 THEN Emf2D(Fin[b])[j][i]
    ELSE Emf3_3D(Fin[b])[k][j][i]

Emf1At(b, k, j, i) ==
    IF via = "mesh" THEN MeshEmf1(Fin[b])[k][j][i] ELSE Emf1_3D(Fin[b])[k][j][i]

\* the flux engine left no F2(B1) and no F2(B3) on row j of block b
PoleRowClear(b, j) ==
    \A k \in KK, i \in II : F0[b][2][B1][k][j][i] = 0 /\ F0[b][2][B3][k][j][i] = 0

\* the pole rows of block b: js at a user inner_x2, je+1 at a user outer_x2
PoleRows(b) ==
    (IF boundary_flag[b].inner_x2 = "user" THEN {js} ELSE {})
    \cup (IF boundary_flag[b].outer_x2 = "user" THEN {je + 1} ELSE {})

\* C20: after TransportB with fix_polar_flux on a problem of dimension >= 2,
\* on every pole row of a user X2 boundary where the flux engine left
\* F2(B1) = F2(B3) = 0, the emf3 (and in 3D the emf1) FluxCT computed is 0
\* for i in is..ie+1, and F2 of B1, B2 and B3 is 0 on the pole face of
\* every interior cell column.
PolarEmfVanish ==
    (CTDone /\ fixed /\ ndim >= 2) =>
        \A b \in Blocks : \A j \in PoleRows(b) :
            PoleRowClear(b, j) =>
                /\ \A k \in ks .. ke_e, i \in is .. (ie + 1) :
                      /\ Emf3At(b, k, j, i) = 0
                      /\ ndim > 2 => Emf1At(b, k, j, i) = 0
                /\ \A comp \in Comps, k \in ks .. ke, i \in is .. ie :
                      F[b][2][comp][k][j][i] = 0

\* a 3D block at the inner pole: the row js carries F1(B2) and F3(B2), the
\* row below was not their mirror image before the fix and is after it
PolarEmfVanishWitness ==
    /\ pc = "transported" /\ via = "block" /\ ndim = 3 /\ fixed
    /\ js \in PoleRows(0) /\ PoleRowClear(0, js)
    /\ F0[0][1][B2][ks][js][is] # 0
    /\ F0[0][1][B2][ks][js - 1][is] # -F0[0][1][B2][ks][js][is]
    /\ Fin[0][1][B2][ks][js - 1][is] = -F0[0][1][B2][ks][js][is]
    /\ F0[0][3][B2][ks][js][is] # 0
    /\ Emf3At(0, ks, js, is) = 0 /\ Emf1At(0, ks, js, is) = 0
    /\ \A comp \in Comps : F[0][2][comp][ks][js][is] = 0

\* C2: if cons.B has zero corner-centred divergence (the stencil of MaxDivB,
\* unit cell widths) before the step, then after FluxCT and the conservative
\* update with the rewritten fluxes it has zero divergence at every corner
\* MaxDivB evaluates, for any fluxes of the flux engine.
DivergencePreserved ==
    (pc = "updated" /\ via \in {"block", "mesh"} /\ ndim >= 2 /\ MaxDivB(Bpre) = 0)
        => MaxDivB(B) = 0

\* a 3D step that changed a divergence-free field and kept it divergence-free
DivergencePreservedWitness ==
    /\ pc = "updated" /\ via = "block" /\ ndim = 3
    /\ MaxDivB(Bpre) = 0
    /\ \E b \in Blocks : B[b][B1][ks][js][is] # Bpre[b][B1][ks][js][is]
    /\ MaxDivB(B) = 0

\* C3: right after FixPolarFlux (dimension >= 2), on a block whose inner
\* (outer) X2 boundary is a user boundary, F2(B2) on the pole face row j = js
\* (j = je+1) is 0 for every k in ks..ke_e and i in is..ie+1, and F1(B2) in
\* the row across the pole is minus the adjacent physical row.
PolarFluxZeroed ==
    (pc = "FluxCT" /\ fixed /\ ndim >= 2) =>
        \A b \in Blocks : \A k \in ks .. ke_e, i \in is .. (ie + 1) :
            /\ boundary_flag[b].inner_x2 = "user" =>
                 /\ F[b][2][B2][k][js][i] = 0
                 /\ F[b][1][B2][k][js - 1][i] = -F[b][1][B2][k][js][i]
            /\ boundary_flag[b].outer_x2 = "user" =>
                 /\ F[b][2][B2][k][je + 1][i] = 0
                 /\ F[b][1][B2][k][je + 1][i] = -F[b][1][B2][k][je][i]

\* a block with both poles whose pole fluxes were not 0 and whose rows across
\* the pole were not yet mirrored, with FixPolarFlux just done
PolarFluxZeroedWitness ==
    /\ pc = "FluxCT" /\ fixed /\ ndim = 3
    /\ \E b \in Blocks :
          /\ boundary_flag[b].inner_x2 = "user"
          /\ boundary_flag[b].outer_x2 = "user"
          /\ F0[b][2][B2][ke + 1][js][is] # 0
          /\ F0[b][2][B2][ks][je + 1][ie + 1] # 0
          /\ F0[b][1][B2][ks][js - 1][is] # -F0[b][1][B2][ks][js][is]
          /\ F[b][2][B2][ke + 1][js][is] = 0
          /\ F[b][2][B2][ks][je + 1][ie + 1] = 0
          /\ F[b][1][B2][ks][js - 1][is] = -F[b][1][B2][ks][js][is]
          /\ F[b][1][B2][ks][js][is] # 0

\* C6: in a 2D problem FluxCT2D and the general 3-component path (the
\* mesh-wide FluxCT, the one that runs on 2D problems) give identical F1(B2)
\* and F2(B1) on every face FluxCT2D writes, from identical input fluxes.
Consistent2D3D ==
    (pc = "transported" /\ ndim = 2 /\ via \in {"block", "mesh"}) =>
        \A b \in Blocks :
            LET other == IF via = "block" THEN MeshFluxCTBlock(Fin[b])
                                          ELSE FluxCT2D(Fin[b])
            IN  \A j \in JJ, i \in II :
                    /\ InCT1_2D(j, i) => F[b][1][B2][0][j][i] = other[1][B2][0][j][i]
                    /\ InCT2_2D(j, i) => F[b][2][B1][0][j][i] = other[2][B1][0][j][i]

NoOpIn1D ==
    (ndim = 1 /\ CTDone) => (status = "complete" /\ F = F0 /\ ~oob)

\* the rows of j the kernel "fix_flux_b_l" stores to, and those of
\* "fix_flux_b_r"
InnerRows == {js - 1, js}
OuterRows == {je_e}

\* C11: right after FixPolarFlux, a flux value differs from the value before
\* the call only on a block with a user X2 boundary and only in the rows of
\* that side: j = js-1, js for a user inner boundary, j = je_e for a user
\* outer boundary.  A block with no user X2 boundary keeps every flux.
FixOnlyAtUserBoundaries ==
    (pc = "FluxCT" /\ fixed) =>
        \A b \in Blocks, dir \in Dirs, comp \in Comps, k \in KK, j \in JJ, i \in II :
            F[b][dir][comp][k][j][i] # F0[b][dir][comp][k][j][i] =>
                \/ boundary_flag[b].inner_x2 = "user" /\ j \in InnerRows
                \/ boundary_flag[b].outer_x2 = "user" /\ j \in OuterRows

\* two blocks stacked along X2 between two poles: the lower block is changed
\* at its inner rows and keeps its outer rows, which the outer kernel would
\* have changed; the upper block the other way round
FixOnlyAtUserBoundariesWitness ==
    /\ pc = "FluxCT" /\ fixed /\ ndim = 3 /\ nblocks = 2
    /\ boundary_flag[0].inner_x2 = "user" /\ boundary_flag[0].outer_x2 # "user"
    /\ boundary_flag[1].inner_x2 # "user" /\ boundary_flag[1].outer_x2 = "user"
    /\ F[0][2][B2][ks][js][is] # F0[0][2][B2][ks][js][is]
    /\ F[0][1][B2][ks][js - 1][is] # F0[0][1][B2][ks][js - 1][is]
    /\ FixOuter(F0[0])[2][B2][ks][je_e][is] # F0[0][2][B2][ks][je_e][is]
    /\ F[0][2][B2][ks][je_e][is] = F0[0][2][B2][ks][je_e][is]
    /\ F[1][2][B2][ks][je_e][is] # F0[1][2][B2][ks][je_e][is]
    /\ FixInner(F0[1], FALSE)[2][B2][ks][js][is] # F0[1][2][B2][ks][js][is]
    /\ F[1][2][B2][ks][js][is] = F0[1][2][B2][ks][js][is]

\* C21: in the mesh-wide FluxCT the ranges il, jl, kl are the interior range
\* with one more zone on the upper side only (kl the interior k range in
\* 2D), and so the direction-normal fluxes the call rewrites lie in the
\* interior range extended by one zone upward along their direction.
MeshHaloRightOnly ==
    (CTDone /\ via = "mesh" /\ ndim >= 2) =>
        /\ il_s = is /\ il_e = ie + 1
        /\ jl_s = js /\ jl_e = je + 1
        /\ kl_s = ks /\ kl_e = (IF ndim > 2 THEN ke + 1 ELSE ke)
        /\ \A b \in Blocks, comp \in Comps, k \in KK, j \in JJ, i \in II :
              /\ F[b][1][comp][k][j][i] # Fin[b][1][comp][k][j][i]
                    => i \in is .. (ie + 1)
              /\ F[b][2][comp][k][j][i] # Fin[b][2][comp][k][j][i]
                    => j \in js .. (je + 1)

---------------------------------------------------------------------------
(* Flux::FOFC(MeshData *md, MeshData *guess), containers.hpp               *)
(* The packs hold one variable (nvar = 1): PLOOP treats every variable     *)
(* alike.                                                                  *)

\* substeps taken in one run
MaxCalls == 2

\* the loop "for (auto el : {F1, F2, F3})"
AllDirs == 1 .. 3

Max(a, b) == IF a >= b THEN a ELSE b

\* KDomain::GetRange along one axis: the bounds of the element (cells, or
\* faces with one more index on the trailing side), widened by the halos
\* if the axis is active
GetRange(s, e, trailing, left_halo, right_halo, active) ==
    IF active THEN (s + left_halo) .. (e + right_halo + trailing)
              ELSE s .. (e + trailing)

\* the index space of the flag kernel: GetRange(md, interior, -1, 1)
FlagRangeK == GetRange(ks, ke, 0, -1, 1, ndim > 2)
FlagRangeJ == GetRange(js, je, 0, -1, 1, ndim > 1)
\* a faulty variant: the flag kernel on the interior cells only
FlagRangeI_NoHalo == GetRange(is, ie, 0, 0, 0, TRUE)
FlagRangeI == GetRange(is, ie, 0, -1, 1, TRUE)

InFlagRange(k, j, i) == k \in FlagRangeK /\ j \in FlagRangeJ /\ i \in FlagRangeI

FlagRange == Blocks \X FlagRangeK \X FlagRangeJ \X FlagRangeI

\* the index space of the face kernel of direction dir:
\* GetRange(md, interior, el, -1, 1)
FaceRangeK(dir) == GetRange(ks, ke, IF dir = 3 THEN 1 ELSE 0, -1, 1, ndim > 2)
FaceRangeJ(dir) == GetRange(js, je, IF dir = 2 THEN 1 ELSE 0, -1, 1, ndim > 1)
FaceRangeI(dir) == GetRange(is, ie, IF dir = 1 THEN 1 ELSE 0, -1, 1, TRUE)

InFaceRange(dir, k, j, i) ==
    k \in FaceRangeK(dir) /\ j \in FaceRangeJ(dir) /\ i \in FaceRangeI(dir)

FaceRange(dir) == Blocks \X FaceRangeK(dir) \X FaceRangeJ(dir) \X FaceRangeI(dir)

\* what one iteration of the flag kernel leaves in fofcflag(b, 0, k, j, i)
FlagValue(fofc, b, k, j, i) ==
    IF fflag[b][k][j][i] > 0 \/ pflag[b][k][j][i] > 0
    THEN 1
    ELSE fofc[b][k][j][i]

\* the flag kernel, all iterations
FlagPass(fofc) ==
    [b \in Blocks |-> [k \in KK |-> [j \in JJ |-> [i \in II |->
        IF InFlagRange(k, j, i) THEN FlagValue(fofc, b, k, j, i)
                                ELSE fofc[b][k][j][i]]]]]

\* the cell one index lower along dir: kk, jj, ii
LowerK(dir, k) == IF dir = 3 THEN k - 1 ELSE k
LowerJ(dir, j) == IF dir = 2 THEN j - 1 ELSE j
LowerI(dir, i) == IF dir = 1 THEN i - 1 ELSE i

\* a faulty variant: the cell two indices lower is consulted instead of the
\* bordering cell one index lower
FaceFlagged_TwoLower(fofc, b, dir, k, j, i) ==
    \/ fofc[b][k][j][i] > 0
    \/ fofc[b][LowerK(dir, LowerK(dir, k))][LowerJ(dir, LowerJ(dir, j))][LowerI(dir, LowerI(dir, i))] > 0

\* "if either bordering cell is marked"
FaceFlagged(fofc, b, dir, k, j, i) ==
    \/ fofc[b][k][j][i] > 0
    \/ fofc[b][LowerK(dir, k)][LowerJ(dir, j)][LowerI(dir, i)] > 0

\* the iterations of the face kernel of direction dir that take the branch
CorrectedFaces(fofc, dir) ==
    {c \in FaceRange(dir) : FaceFlagged(fofc, c[1], dir, c[2], c[3], c[4])}

\* Flux::prim_to_flux of the one variable: the conserved variable for
\* dir = 0, its flux along dir otherwise (advection with velocity 2 dir - 4)
prim_to_flux(p, dir) == IF dir = 0 THEN p ELSE (2 * dir - 4) * p

\* Flux::vchar_global: fastest right- and left-going speeds, in whole units;
\* the sound speed is 1 or 2 with the parity of the primitive
vchar_global(p, dir) ==
    LET cs == 1 + ((p \div Unit) % 2)
    IN  [cmax |-> (2 * dir - 4) + cs, cmin |-> (2 * dir - 4) - cs]

\* Flux::llf, with the speeds in whole units
llf(fl, fr, cx, cn, ul, ur) == Mul05(fl + fr - Max(cx, cn) * (ur - ul))

\* a faulty variant: the left state taken from the face's own cell
PlVal_SameCell(b, dir, k, j, i) == P[b][k][j][i]

\* the values one face iteration computes
PlVal(b, dir, k, j, i) == P[b][LowerK(dir, k)][LowerJ(dir, j)][LowerI(dir, i)]
PrVal(b, dir, k, j, i) == P[b][k][j][i]
\* a faulty variant: the new speed blended with the speed the main scheme
\* had stored
CmaxVal_Blended(b, dir, k, j, i) ==
    LET cmaxL == vchar_global(PlVal(b, dir, k, j, i), dir).cmax
        cmaxR == vchar_global(PrVal(b, dir, k, j, i), dir).cmax
    IN  Abs(Max(Max(cmax[b][dir][k][j][i], cmaxL), cmaxR))

CmaxVal(b, dir, k, j, i) ==
    LET cmaxL == vchar_global(PlVal(b, dir, k, j, i), dir).cmax
        cmaxR == vchar_global(PrVal(b, dir, k, j, i), dir).cmax
    IN  Abs(Max(Max(0, cmaxL), cmaxR))
CminVal(b, dir, k, j, i) ==
    LET cminL == vchar_global(PlVal(b, dir, k, j, i), dir).cmin
        cminR == vchar_global(PrVal(b, dir, k, j, i), dir).cmin
    IN  Abs(Max(Max(0, -cminL), -cminR))
\* a faulty variant: Ul and Ur handed to llf in the wrong order
FluxVal_SwappedStates(b, dir, k, j, i) ==
    llf(prim_to_flux(PlVal(b, dir, k, j, i), dir),
        prim_to_flux(PrVal(b, dir, k, j, i), dir),
        CmaxVal(b, dir, k, j, i), CminVal(b, dir, k, j, i),
        prim_to_flux(PrVal(b, dir, k, j, i), 0),
        prim_to_flux(PlVal(b, dir, k, j, i), 0))

FluxVal(b, dir, k, j, i) ==
    llf(prim_to_flux(PlVal(b, dir, k, j, i), dir),
        prim_to_flux(PrVal(b, dir, k, j, i), dir),
        CmaxVal(b, dir, k, j, i), CminVal(b, dir, k, j, i),
        prim_to_flux(PlVal(b, dir, k, j, i), 0),
        prim_to_flux(PrVal(b, dir, k, j, i), 0))

\* the arrays Flux::FOFC writes in its face kernels
Temps ==
    [Pl |-> Pl, Pr |-> Pr, Ul |-> Ul, Ur |-> Ur, Fl |-> Fl, Fr |-> Fr,
     cmax |-> cmax, cmin |-> cmin, flux |-> Uflux]

\* the stores of one iteration of the face kernel of direction dir that takes
\* the branch, at face c = <<b, k, j, i>>
FaceStores(T, c, dir) ==
    LET b == c[1]
        k == c[2]
        j == c[3]
        i == c[4]
        pl == PlVal(b, dir, k, j, i)
        pr == PrVal(b, dir, k, j, i)
    IN  [Pl   |-> [T.Pl EXCEPT ![b][k][j][i] = pl],
         Pr   |-> [T.Pr EXCEPT ![b][k][j][i] = pr],
         Ul   |-> [T.Ul EXCEPT ![b][k][j][i] = prim_to_flux(pl, 0)],
         Ur   |-> [T.Ur EXCEPT ![b][k][j][i] = prim_to_flux(pr, 0)],
         Fl   |-> [T.Fl EXCEPT ![b][k][j][i] = prim_to_flux(pl, dir)],
         Fr   |-> [T.Fr EXCEPT ![b][k][j][i] = prim_to_flux(pr, dir)],
         cmax |-> [T.cmax EXCEPT ![b][dir][k][j][i] = CmaxVal(b, dir, k, j, i)],
         cmin |-> [T.cmin EXCEPT ![b][dir][k][j][i] = CminVal(b, dir, k, j, i)],
         flux |-> [T.flux EXCEPT ![b][dir][k][j][i] = FluxVal(b, dir, k, j, i)]]

\* the iterations S of the face kernel of direction dir, one after the
\* other: they store to different indices, so the order does not matter
RECURSIVE StoreAll(_, _, _)
StoreAll(T, S, dir) ==
    IF S = {} THEN T
    ELSE LET c == CHOOSE x \in S : TRUE
         IN  StoreAll(FaceStores(T, c, dir), S \ {c}, dir)

\* a faulty variant: the last present direction is skipped as well
FaceKernel_SkipsLast(T, fofc, dir) ==
    IF dir >= ndim THEN T
    ELSE StoreAll(T, CorrectedFaces(fofc, dir), dir)

\* the face kernel of direction dir, all iterations; "if (dir > ndim) continue"
FaceKernel(T, fofc, dir) ==
    IF dir > ndim THEN T
    ELSE StoreAll(T, CorrectedFaces(fofc, dir), dir)

\* the three face kernels in the order of the loop
FacePasses(T, fofc) == FaceKernel(FaceKernel(FaceKernel(T, fofc, 1), fofc, 2), fofc, 3)

---------------------------------------------------------------------------
(* The surroundings of Flux::FOFC: the flux engine and the trial update    *)

ZeroCells == [b \in Blocks |-> ZeroScalar]
ZeroFaces == [b \in Blocks |-> [d \in AllDirs |-> ZeroScalar]]

\* the blocks lie side by side along X1: index i of block b is the cell
\* i + NX * b of the row, and index i + NX of block b is index i of block b+1
RowI(b, i) == i + NX * b

\* positive primitives, different from cell to cell; the ghost cells of a
\* block hold the values of the neighbour's cells
InitP ==
    [b \in Blocks |-> [k \in KK |-> [j \in JJ |-> [i \in II |->
        Unit * (1 + ((2 * k + 3 * j + RowI(b, i) + RowI(b, i) * j
                      + k * RowI(b, i)) % 4))]]]]

\* the fluxes of the high-order scheme: never a value the first-order
\* formula can give (those are multiples of Unit / 2)
HighOrderFlux(seed) ==
    [b \in Blocks |-> [d \in AllDirs |-> [k \in KK |-> [j \in JJ |-> [i \in II |->
        Unit * Pat(seed, b, d, 0, k, j, i) + 1]]]]]

\* the signal speeds the high-order scheme stored
HighOrderSpeed(seed) ==
    [b \in Blocks |-> [d \in AllDirs |-> [k \in KK |-> [j \in JJ |-> [i \in II |->
        Pat(seed, b, d, 1, k, j, i)]]]]]

\* cell <<k, j, i>> of block 0 as every block of the row holds it
Copies(k, j, i) ==
    {<<b, k, j, i - NX * b>> : b \in {x \in Blocks : i - NX * x \in II}}

\* the cells the trial update may flag: the first and the last interior
\* cell, a ghost cell next to the interior, a ghost cell one further out,
\* or the last interior cell of block 0 in every block that holds it
FlagCell(name) ==
    CASE name = "first" -> {<<0, ks, js, is>>}
      [] name = "last"  -> {<<nblocks - 1, ke, je, ie>>}
      [] name = "ghost" -> {<<0, ks, js, is - 1>>}
      [] name = "far"   -> {<<0, ks, js, is - 2>>}
      [] name = "edge"  -> Copies(ks, js, ie)
      [] OTHER          -> {}

FlagField(cells, value) ==
    [b \in Blocks |-> [k \in KK |-> [j \in JJ |-> [i \in II |->
        IF <<b, k, j, i>> \in cells THEN value ELSE 0]]]]

\* the cells where a flag field is positive
Flagged(f) ==
    {c \in Blocks \X KK \X JJ \X II : f[c[1]][c[2]][c[3]][c[4]] > 0}

\* construction of the fields of the flux correction
FOFCFields ==
    /\ fflag = ZeroCells /\ pflag = ZeroCells /\ fofcflag = ZeroCells
    /\ P = InitP
    /\ Uflux = ZeroFaces /\ cmax = ZeroFaces /\ cmin = ZeroFaces
    /\ Pl = ZeroCells /\ Pr = ZeroCells /\ Ul = ZeroCells /\ Ur = ZeroCells
    /\ Fl = ZeroCells /\ Fr = ZeroCells
    /\ Uflux0 = Uflux /\ fofcflag0 = fofcflag
    /\ fpc = "fluxes" /\ ncalls = 0 /\ kidx = 0 /\ todo = {} /\ dec = {}

\* the transport of B is not part of the flux correction
CTIdle ==
    /\ boundary_flag = [b \in Blocks |-> [inner_x2 |-> "outflow", outer_x2 |-> "outflow"]]
    /\ pin = [fix_polar_flux |-> "unset", disable_flux_ct |-> "unset"]
    /\ params = Initialize(pin)
    /\ fuse = FALSE
    /\ F = <<>> /\ F0 = <<>> /\ Fin = <<>> /\ B = <<>> /\ Bpre = <<>>
    /\ pc = "idle" /\ via = "none" /\ fixed = FALSE /\ status = "none" /\ oob = FALSE

InitFOFC ==
    /\ ndim \in 1 .. 3
    /\ nblocks \in 1 .. MaxBlocks
    /\ CTIdle
    /\ FOFCFields
    /\ AuxIdle

\* the flux engine fills fluxes and speeds, the trial update writes fflag
\* and pflag
PrepareSubstep ==
    /\ fpc = "fluxes"
    /\ Uflux' = HighOrderFlux(ncalls + 1)
    /\ cmax' = HighOrderSpeed(ncalls + 1)
    /\ cmin' = HighOrderSpeed(ncalls + 2)
    /\ \E pf \in {"none", "first", "last", "ghost", "far", "edge"} :
          pflag' = FlagField(FlagCell(pf), 1)
    /\ \E ff \in {"none", "last"} :
          fflag' = FlagField(FlagCell(ff), 2)
    /\ fpc' = "fofc"
    /\ UNCHANGED <<auxvars, ctvars, fofcflag, P, Pl, Pr, Ul, Ur, Fl, Fr,
                   Uflux0, fofcflag0, ncalls, kidx, todo, dec>>

\* Flux::FOFC, the whole call
FOFC ==
    /\ fpc = "fofc"
    /\ Uflux0' = Uflux
    /\ fofcflag0' = fofcflag
    /\ fofcflag' = FlagPass(fofcflag)
    /\ LET T == FacePasses(Temps, fofcflag')
       IN  /\ Pl' = T.Pl /\ Pr' = T.Pr /\ Ul' = T.Ul /\ Ur' = T.Ur
           /\ Fl' = T.Fl /\ Fr' = T.Fr
           /\ cmax' = T.cmax /\ cmin' = T.cmin
           /\ Uflux' = T.flux
    /\ fpc' = "done"
    /\ ncalls' = ncalls + 1
    /\ UNCHANGED <<auxvars, ctvars, fflag, pflag, P, kidx, todo, dec>>

\* the driver goes on to the next substep
NextSubstep ==
    /\ fpc = "done"
    /\ ncalls < MaxCalls
    /\ fpc' = "fluxes"
    /\ UNCHANGED <<auxvars, ctvars, fflag, pflag, fofcflag, P, Uflux, Pl, Pr, Ul, Ur, Fl, Fr,
                   cmax, cmin, Uflux0, fofcflag0, ncalls, kidx, todo, dec>>

NextFOFC ==
    \/ PrepareSubstep
    \/ FOFC
    \/ NextSubstep

SpecFOFC == InitFOFC /\ [][NextFOFC]_vars

---------------------------------------------------------------------------
(* Flux::FOFC kernel by kernel: the call issues its par_for kernels in     *)
(* program order; the iterations of one kernel run in any order.           *)

\* a variant with the first face kernel issued before the flag kernel
KernelOrder_FaceFirst == <<1, 0, 2, 3>>

\* the par_for launches of Flux::FOFC in program order: the flag kernel
\* (written 0), then the face kernels of F1, F2, F3
KernelOrder == <<0, 1, 2, 3>>

\* the index space of a kernel
Iterations(kernel) ==
    IF kernel = 0 THEN FlagRange
    ELSE IF kernel > ndim THEN {}
         ELSE FaceRange(kernel)

\* a kernel runs to completion before the next one of the same execution
\* space starts
KernelDone == todo = {}

InitFOFCKernels ==
    /\ ndim = 1
    /\ nblocks \in 1 .. MaxBlocks
    /\ CTIdle
    /\ FOFCFields
    /\ AuxIdle

\* entry of Flux::FOFC
K_Enter ==
    /\ fpc = "fofc"
    /\ fpc' = "kernels"
    /\ kidx' = 0 /\ todo' = {} /\ dec' = {}
    /\ Uflux0' = Uflux
    /\ fofcflag0' = fofcflag
    /\ UNCHANGED <<auxvars, ctvars, fflag, pflag, fofcflag, P, Uflux, Pl, Pr, Ul, Ur, Fl, Fr,
                   cmax, cmin, ncalls>>

\* the next par_for of the call
K_Launch ==
    /\ fpc = "kernels"
    /\ KernelDone
    /\ kidx < Len(KernelOrder)
    /\ kidx' = kidx + 1
    /\ todo' = Iterations(KernelOrder[kidx + 1])
    /\ UNCHANGED <<auxvars, ctvars, fflag, pflag, fofcflag, P, Uflux, Pl, Pr, Ul, Ur, Fl, Fr,
                   cmax, cmin, Uflux0, fofcflag0, fpc, ncalls, dec>>

\* one iteration of the flag kernel
K_FlagIter ==
    /\ fpc = "kernels" /\ kidx >= 1 /\ KernelOrder[kidx] = 0
    /\ \E c \in todo :
          /\ fofcflag' = [fofcflag EXCEPT ![c[1]][c[2]][c[3]][c[4]] =
                              FlagValue(fofcflag, c[1], c[2], c[3], c[4])]
          /\ todo' = todo \ {c}
    /\ UNCHANGED <<auxvars, ctvars, fflag, pflag, P, Uflux, Pl, Pr, Ul, Ur, Fl, Fr,
                   cmax, cmin, Uflux0, fofcflag0, fpc, ncalls, kidx, dec>>

\* one iteration of a face kernel
K_FaceIter ==
    /\ fpc = "kernels" /\ kidx >= 1 /\ KernelOrder[kidx] >= 1
    /\ \E c \in todo :
          LET dir == KernelOrder[kidx]
              hit == FaceFlagged(fofcflag, c[1], dir, c[2], c[3], c[4])
              T   == IF hit THEN FaceStores(Temps, c, dir) ELSE Temps
          IN  /\ Pl' = T.Pl /\ Pr' = T.Pr /\ Ul' = T.Ul /\ Ur' = T.Ur
              /\ Fl' = T.Fl /\ Fr' = T.Fr
              /\ cmax' = T.cmax /\ cmin' = T.cmin
              /\ Uflux' = T.flux
              /\ dec' = dec \cup {<<c, dir, hit>>}
              /\ todo' = todo \ {c}
    /\ UNCHANGED <<auxvars, ctvars, fflag, pflag, fofcflag, P, Uflux0, fofcflag0, fpc, ncalls, kidx>>

\* "return TaskStatus::complete"
K_Return ==
    /\ fpc = "kernels"
    /\ KernelDone
    /\ kidx = Len(KernelOrder)
    /\ fpc' = "done"
    /\ ncalls' = ncalls + 1
    /\ UNCHANGED <<auxvars, ctvars, fflag, pflag, fofcflag, P, Uflux, Pl, Pr, Ul, Ur, Fl, Fr,
                   cmax, cmin, Uflux0, fofcflag0, kidx, todo, dec>>

NextFOFCKernels ==
    \/ PrepareSubstep
    \/ K_Enter
    \/ K_Launch
    \/ K_FlagIter
    \/ K_FaceIter
    \/ K_Return

SpecFOFCKernels == InitFOFCKernels /\ [][NextFOFCKernels]_vars

---------------------------------------------------------------------------
(* Properties of the flux correction *)

AllZero(f) == Flagged(f) = {}

\* C4: if fflag and pflag are zero at every cell when Flux::FOFC is called,
\* every flux value after the call, in every direction, is the value before
\* the call.
NoFlagsNoChange ==
    (fpc = "done" /\ AllZero(fflag) /\ AllZero(pflag)) => Uflux = Uflux0

\* C5: starting from all-zero flags (fflag, pflag and fofcflag), with pflag
\* set to 1 at a single cell c, Flux::FOFC changes the flux only at faces
\* bordering c: in a present direction, the face with the index of c and the
\* face one index higher along that direction; every other flux is unchanged.
CorrectionLocal ==
    (fpc = "done" /\ AllZero(fofcflag0) /\ AllZero(fflag)
                  /\ Cardinality(Flagged(pflag)) = 1) =>
        \A c \in Flagged(pflag) :
            \A b \in Blocks, dir \in AllDirs, k \in KK, j \in JJ, i \in II :
                Uflux[b][dir][k][j][i] # Uflux0[b][dir][k][j][i] =>
                    /\ dir <= ndim
                    /\ b = c[1]
                    /\ \/ <<k, j, i>> = <<c[2], c[3], c[4]>>
                       \/ <<LowerK(dir, k), LowerJ(dir, j), LowerI(dir, i)>>
                              = <<c[2], c[3], c[4]>>

\* a 3D call with pflag set at one interior cell that changed the two faces
\* of that cell in each direction and nothing else in its row
CorrectionLocalWitness ==
    /\ fpc = "done" /\ ndim = 3 /\ nblocks > 1
    /\ AllZero(fofcflag0) /\ AllZero(fflag)
    /\ Flagged(pflag) = {<<nblocks - 1, ke, je, ie>>}
    /\ LET b == nblocks - 1
       IN  /\ Uflux[b][1][ke][je][ie] # Uflux0[b][1][ke][je][ie]
           /\ Uflux[b][1][ke][je][ie + 1] # Uflux0[b][1][ke][je][ie + 1]
           /\ Uflux[b][2][ke][je][ie] # Uflux0[b][2][ke][je][ie]
           /\ Uflux[b][2][ke][je + 1][ie] # Uflux0[b][2][ke][je + 1][ie]
           /\ Uflux[b][3][ke][je][ie] # Uflux0[b][3][ke][je][ie]
           /\ Uflux[b][3][ke + 1][je][ie] # Uflux0[b][3][ke + 1][je][ie]
           /\ Uflux[b][1][ke][je][ie - 1] = Uflux0[b][1][ke][je][ie - 1]
           /\ Uflux[b][1][ke][je][ie + 2] = Uflux0[b][1][ke][je][ie + 2]
           /\ Uflux[0] = Uflux0[0]

\* the position of the flag kernel among the launches
FlagKernelPos == CHOOSE n \in 1 .. Len(KernelOrder) : KernelOrder[n] = 0

\* C7: within one Flux::FOFC call no face iteration runs before the flag
\* kernel has finished on every cell of every block: every decision a face
\* iteration has taken is the decision the completed flag pass of this call
\* gives, and the flag field is complete as soon as one decision exists.
TwoPassOrdering ==
    (fpc \in {"kernels", "done"} /\ dec # {}) =>
        /\ kidx > FlagKernelPos
        /\ fofcflag = FlagPass(fofcflag0)
        /\ \A d \in dec :
              d[3] = FaceFlagged(FlagPass(fofcflag0), d[1][1], d[2], d[1][2], d[1][3], d[1][4])

\* a call on several blocks, in the middle of its first face kernel, with
\* faces already corrected and faces already left alone
TwoPassOrderingWitness ==
    /\ fpc = "kernels" /\ nblocks > 1
    /\ kidx = FlagKernelPos + 1 /\ todo # {}
    /\ \E d \in dec : d[3]
    /\ \E d \in dec : ~d[3]
    /\ \E c \in Flagged(fofcflag) : fofcflag0[c[1]][c[2]][c[3]][c[4]] = 0

\* C8: after every Flux::FOFC call, fofcflag at each cell of the extended
\* range is 1 exactly when fflag or pflag of that cell is positive in this
\* call.
FlagsDerivedAfresh ==
    fpc = "done" =>
        \A b \in Blocks, k \in KK, j \in JJ, i \in II :
            InFlagRange(k, j, i) =>
                ((fofcflag[b][k][j][i] = 1)
                    <=> (fflag[b][k][j][i] > 0 \/ pflag[b][k][j][i] > 0))

\* field f of blocks b and b+1 agrees on the two cells that border the face
\* the blocks share: index ie, ie+1 of block b is index is-1, is of block b+1
AgreeAtSharedFace(f) ==
    \A b \in Blocks :
        (b + 1) \in Blocks =>
            \A k \in ks .. ke, j \in js .. je :
                /\ f[b][k][j][ie] = f[b + 1][k][j][is - 1]
                /\ f[b][k][j][ie + 1] = f[b + 1][k][j][is]

\* C14: two blocks side by side both store the flux of the X1 face between
\* them, one as its face ie+1 and one as its face is.  If primitives and
\* flags of the two bordering cells agree in both blocks when Flux::FOFC is
\* called, the call replaces the flux in both blocks or in neither, and the
\* two blocks hold the same new value: the face carries one flux, the
\* outflow of the lower cell and the inflow of the upper cell.
SharedFaceSingleValued ==
    (/\ fpc = "done"
     /\ AgreeAtSharedFace(P) /\ AgreeAtSharedFace(fflag)
     /\ AgreeAtSharedFace(pflag) /\ AgreeAtSharedFace(fofcflag0)) =>
        \A b \in Blocks :
            (b + 1) \in Blocks =>
                \A k \in ks .. ke, j \in js .. je :
                    LET lo    == Uflux[b][1][k][j][ie + 1]
                        hi    == Uflux[b + 1][1][k][j][is]
                        loNew == lo # Uflux0[b][1][k][j][ie + 1]
                        hiNew == hi # Uflux0[b + 1][1][k][j][is]
                    IN  /\ loNew <=> hiNew
                        /\ loNew => lo = hi

\* a first call on two 3D blocks with the last cell of block 0 flagged in
\* both: the fluxes the two blocks held for the shared face differed, both
\* were replaced, and by the same value
SharedFaceSingleValuedWitness ==
    /\ fpc = "done" /\ ndim = 3 /\ nblocks = 2 /\ ncalls = 1
    /\ AgreeAtSharedFace(P) /\ AgreeAtSharedFace(fflag)
    /\ AgreeAtSharedFace(pflag) /\ AgreeAtSharedFace(fofcflag0)
    /\ pflag[0][ks][js][ie] > 0 /\ pflag[1][ks][js][is - 1] > 0
    /\ Uflux0[0][1][ks][js][ie + 1] # Uflux0[1][1][ks][js][is]
    /\ Uflux[0][1][ks][js][ie + 1] # Uflux0[0][1][ks][js][ie + 1]
    /\ Uflux[1][1][ks][js][is] # Uflux0[1][1][ks][js][is]
    /\ Uflux[0][1][ks][js][ie + 1] = Uflux[1][1][ks][js][is]

\* the primitives of the cell one index lower along dir than face c
LowerP(c, dir) == P[c[1]][LowerK(dir, c[2])][LowerJ(dir, c[3])][LowerI(dir, c[4])]

\* the primitives of the cell with the index of face c
SameP(c) == P[c[1]][c[2]][c[3]][c[4]]

\* the values Flux::FOFC found in cmax and cmin when it was called
cmaxAtEntry == HighOrderSpeed(ncalls)
cminAtEntry == HighOrderSpeed(ncalls + 1)

\* C13: after Flux::FOFC, at every face it corrected, the stored flux F
\* satisfies 2 F = (Fl + Fr) - max(cmax, cmin) * (Ur - Ul), where Fl, Fr are
\* the fluxes and Ul, Ur the conserved states of the two bordering cells'
\* primitives and cmax, cmin the speeds this call stored for the face; for
\* the direction handled last, Fl, Fr, Ul, Ur are the stored temporaries.
LLFAtCorrectedFaces ==
    fpc = "done" =>
        \A dir \in Dirs : \A c \in CorrectedFaces(fofcflag, dir) :
            LET b  == c[1]
                k  == c[2]
                j  == c[3]
                i  == c[4]
                cx == cmax[b][dir][k][j][i]
                cn == cmin[b][dir][k][j][i]
            IN  /\ 2 * Uflux[b][dir][k][j][i]
                      = (prim_to_flux(LowerP(c, dir), dir) + prim_to_flux(SameP(c), dir))
                        - Max(cx, cn) * (prim_to_flux(SameP(c), 0)
                                         - prim_to_flux(LowerP(c, dir), 0))
                /\ dir = ndim =>
                      2 * Uflux[b][dir][k][j][i]
                          = (Fl[b][k][j][i] + Fr[b][k][j][i])
                            - Max(cx, cn) * (Ur[b][k][j][i] - Ul[b][k][j][i])

\* a 3D call that replaced the flux of an X1 face whose two states differ,
\* so that the dissipation term is not zero
LLFAtCorrectedFacesWitness ==
    /\ fpc = "done" /\ ndim = 3
    /\ \E c \in CorrectedFaces(fofcflag, 1) :
          /\ LowerP(c, 1) # SameP(c)
          /\ Max(cmax[c[1]][1][c[2]][c[3]][c[4]], cmin[c[1]][1][c[2]][c[3]][c[4]]) > 0
          /\ Uflux[c[1]][1][c[2]][c[3]][c[4]] # Uflux0[c[1]][1][c[2]][c[3]][c[4]]
          /\ 2 * Uflux[c[1]][1][c[2]][c[3]][c[4]]
                # prim_to_flux(LowerP(c, 1), 1) + prim_to_flux(SameP(c), 1)

\* C17: after Flux::FOFC, at every face it corrected, the stored speeds are
\* cmax = max(0, cmaxL, cmaxR) and cmin = max(0, -cminL, -cminR) of the
\* speeds of the two bordering cells' states, hence not negative, whatever
\* cmax and cmin held before the call.
SpeedsRecomputed ==
    fpc = "done" =>
        \A dir \in Dirs : \A c \in CorrectedFaces(fofcflag, dir) :
            LET vL == vchar_global(LowerP(c, dir), dir)
                vR == vchar_global(SameP(c), dir)
                cx == cmax[c[1]][dir][c[2]][c[3]][c[4]]
                cn == cmin[c[1]][dir][c[2]][c[3]][c[4]]
            IN  /\ cx = Max(0, Max(vL.cmax, vR.cmax))
                /\ cn = Max(0, Max(-vL.cmin, -vR.cmin))
                /\ cx >= 0 /\ cn >= 0

\* a call that corrected one face where the main scheme had stored a larger
\* cmax than the recomputed one, and one face where it had stored a negative
\* cmin
SpeedsRecomputedWitness ==
    /\ fpc = "done"
    /\ \E dir \in Dirs : \E c \in CorrectedFaces(fofcflag, dir) :
          cmaxAtEntry[c[1]][dir][c[2]][c[3]][c[4]] > cmax[c[1]][dir][c[2]][c[3]][c[4]]
    /\ \E dir \in Dirs : \E c \in CorrectedFaces(fofcflag, dir) :
          /\ cminAtEntry[c[1]][dir][c[2]][c[3]][c[4]] < 0
          /\ cmin[c[1]][dir][c[2]][c[3]][c[4]] > 0

\* face index c is corrected in direction dir and in no later direction of
\* the loop: the temporaries at c are those of the pass of dir
LastCorrectedIn(c, dir) ==
    /\ c \in CorrectedFaces(fofcflag, dir)
    /\ \A later \in (dir + 1) .. ndim : c \notin CorrectedFaces(fofcflag, later)

\* C18: after Flux::FOFC, at a corrected face c of direction dir the left
\* state Pl is the primitive of the cell one index lower along dir, the right
\* state Pr the primitive of the cell with the face's index, and the stored
\* flux is the llf of the conserved states, fluxes and speeds of these two
\* states alone.
ZerothOrderStates ==
    fpc = "done" =>
        \A dir \in Dirs : \A c \in FaceRange(dir) :
            LastCorrectedIn(c, dir) =>
                LET b == c[1]
                    k == c[2]
                    j == c[3]
                    i == c[4]
                    vL == vchar_global(Pl[b][k][j][i], dir)
                    vR == vchar_global(Pr[b][k][j][i], dir)
                IN  /\ Pl[b][k][j][i] = LowerP(c, dir)
                    /\ Pr[b][k][j][i] = SameP(c)
                    /\ Ul[b][k][j][i] = prim_to_flux(Pl[b][k][j][i], 0)
                    /\ Ur[b][k][j][i] = prim_to_flux(Pr[b][k][j][i], 0)
                    /\ Fl[b][k][j][i] = prim_to_flux(Pl[b][k][j][i], dir)
                    /\ Fr[b][k][j][i] = prim_to_flux(Pr[b][k][j][i], dir)
                    /\ Uflux[b][dir][k][j][i]
                          = llf(Fl[b][k][j][i], Fr[b][k][j][i],
                                Max(0, Max(vL.cmax, vR.cmax)),
                                Max(0, Max(-vL.cmin, -vR.cmin)),
                                Ul[b][k][j][i], Ur[b][k][j][i])

\* a 3D call in which the cell of the face, the cell one lower and the cell
\* two lower all hold different primitives, with Pl and Pr first stored by
\* this call
ZerothOrderStatesWitness ==
    /\ fpc = "done" /\ ndim = 3 /\ ncalls = 1
    /\ \E c \in FaceRange(3) :
          /\ LastCorrectedIn(c, 3)
          /\ LowerP(c, 3) # SameP(c)
          /\ P[c[1]][c[2] - 2][c[3]][c[4]] # LowerP(c, 3)
          /\ Pl[c[1]][c[2]][c[3]][c[4]] = LowerP(c, 3)
          /\ Pr[c[1]][c[2]][c[3]][c[4]] = SameP(c)
    /\ \E c \in FaceRange(1) :
          /\ LastCorrectedIn(c, 1)
          /\ LowerP(c, 1) # SameP(c)
          /\ Pl[c[1]][c[2]][c[3]][c[4]] = LowerP(c, 1)

\* C19: after Flux::FOFC on a problem of dimension ndim, the fluxes and the
\* signal speeds of every direction > ndim are those before the call,
\* whatever the flags; every direction 1..ndim has been handled: each of its
\* corrected faces holds a new flux.
AbsentDirectionsSkipped ==
    fpc = "done" =>
        /\ \A b \in Blocks, dir \in AllDirs :
              dir > ndim =>
                  /\ Uflux[b][dir] = Uflux0[b][dir]
                  /\ cmax[b][dir] = cmaxAtEntry[b][dir]
                  /\ cmin[b][dir] = cminAtEntry[b][dir]
        /\ \A dir \in Dirs : \A c \in CorrectedFaces(fofcflag, dir) :
              Uflux[c[1]][dir][c[2]][c[3]][c[4]] # Uflux0[c[1]][dir][c[2]][c[3]][c[4]]

\* a 2D call with a flagged interior cell: the X1 and X2 faces of the cell
\* are rewritten, its X3 flux, not zero, is kept
AbsentDirectionsSkippedWitness ==
    /\ fpc = "done" /\ ndim = 2
    /\ fofcflag[0][ks][js][is] > 0
    /\ Uflux[0][1][ks][js][is] # Uflux0[0][1][ks][js][is]
    /\ Uflux[0][2][ks][js][is] # Uflux0[0][2][ks][js][is]
    /\ Uflux0[0][3][ks][js][is] # 0
    /\ Uflux[0][3][ks][js][is] = Uflux0[0][3][ks][js][is]
    /\ cmax[0][3] = cmaxAtEntry[0][3]

---------------------------------------------------------------------------
(* class VarMap: the slots of the named variables inside a pack            *)

\* a pack lacks at most this many of the variables
MaxAbsent == 2

\* the variables of a container, without the prefix "cons." or "prims.", in
\* the order they are packed
VarNames ==
    <<"rho", "u", "uvec", "B", "psi_cd", "rho_added", "u_added", "Ktot",
      "Kel_Constant", "Kel_Howes", "Kel_Kawazura", "Kel_Werner", "Kel_Rowan",
      "Kel_Sharma", "q", "dP">>

AllVars == {VarNames[n] : n \in 1 .. Len(VarNames)}

\* slots a variable takes in a pack: the vectors uvec and B take three
NComp(name) == IF name \in {"uvec", "B"} THEN 3 ELSE 1

Position(name) == CHOOSE n \in 1 .. Len(VarNames) : VarNames[n] = name

\* slots taken by the variables of the pack packed before VarNames[n]
RECURSIVE SlotsBefore(_, _)
SlotsBefore(present, n) ==
    IF n = 1 THEN 0
    ELSE SlotsBefore(present, n - 1)
         + (IF VarNames[n - 1] \in present THEN NComp(VarNames[n - 1]) ELSE 0)

\* the parthenon::PackIndexMap of a pack of the variables `present` of one
\* class: full name |-> first slot
PackIndexMap(prefix, present) ==
    [key \in {prefix} \X present |-> SlotsBefore(present, Position(key[2]))]

\* name_map["prefix.name"].first: -1 for a name the pack does not hold
First(map, prefix, name) ==
    IF <<prefix, name>> \in DOMAIN map THEN map[<<prefix, name>>] ELSE -1

\* conversion of an int to int8_t, the type of the fields
Int8(x) == ((x + 128) % 256) - 128

\* the values an int8_t can hold
Int8Values == -128 .. 127

\* VarMap::VarMap(name_map, is_cons); PASSIVE is assigned nowhere and holds
\* whatever the storage of the object held
VarMap(map, cons, indeterminate) ==
    LET p  == IF cons THEN "cons" ELSE "prims"
        u1 == Int8(First(map, p, "uvec"))
        b1 == Int8(First(map, p, "B"))
    IN  [RHO        |-> Int8(First(map, p, "rho")),
         UU         |-> Int8(First(map, p, "u")),
         U1         |-> u1,
         B1         |-> b1,
         PSI        |-> Int8(First(map, p, "psi_cd")),
         RHO_ADDED  |-> Int8(First(map, p, "rho_added")),
         UU_ADDED   |-> Int8(First(map, p, "u_added")),
         KTOT       |-> Int8(First(map, p, "Ktot")),
         K_CONSTANT |-> Int8(First(map, p, "Kel_Constant")),
         K_HOWES    |-> Int8(First(map, p, "Kel_Howes")),
         K_KAWAZURA |-> Int8(First(map, p, "Kel_Kawazura")),
         K_WERNER   |-> Int8(First(map, p, "Kel_Werner")),
         K_ROWAN    |-> Int8(First(map, p, "Kel_Rowan")),
         K_SHARMA   |-> Int8(First(map, p, "Kel_Sharma")),
         Q          |-> Int8(First(map, p, "q")),
         DP         |-> Int8(First(map, p, "dP")),
         U2         |-> Int8(u1 + 1),
         U3         |-> Int8(u1 + 2),
         B2         |-> Int8(b1 + 1),
         B3         |-> Int8(b1 + 2),
         PASSIVE    |-> indeterminate]

\* the packs a VarMap is built for: all variables but a few
Packs == {AllVars \ absent : absent \in {a \in SUBSET AllVars : Cardinality(a) <= MaxAbsent}}

\* "PackIndexMap cons_map, prims_map" filled by PackVariables, then handed
\* over with the matching is_cons
InitVarMap ==
    /\ ndim = 1 /\ nblocks = 1
    /\ CTIdle /\ FOFCIdle /\ RaceIdle /\ DiagIdle /\ MoreIdle
    /\ is_cons \in BOOLEAN
    /\ \E present \in Packs :
          name_map = PackIndexMap(IF is_cons THEN "cons" ELSE "prims", present)
    /\ m = <<>>

\* "const VarMap m_u(cons_map, true), m_p(prims_map, false)"
Construct ==
    /\ m = <<>>
    /\ \E indeterminate \in Int8Values : m' = VarMap(name_map, is_cons, indeterminate)
    /\ UNCHANGED <<ctvars, fofcvars, racevars, diagvars, morevars, name_map, is_cons>>

NextVarMap == Construct

SpecVarMap == InitVarMap /\ [][NextVarMap]_vars

\* the variable whose slot each field holds
FieldVariable ==
    [RHO |-> "rho", UU |-> "u", U1 |-> "uvec", U2 |-> "uvec", U3 |-> "uvec",
     B1 |-> "B", B2 |-> "B", B3 |-> "B", PSI |-> "psi_cd",
     RHO_ADDED |-> "rho_added", UU_ADDED |-> "u_added", KTOT |-> "Ktot",
     K_CONSTANT |-> "Kel_Constant", K_HOWES |-> "Kel_Howes",
     K_KAWAZURA |-> "Kel_Kawazura", K_WERNER |-> "Kel_Werner",
     K_ROWAN |-> "Kel_Rowan", K_SHARMA |-> "Kel_Sharma", Q |-> "q", DP |-> "dP"]

\* the pack behind name_map holds the variable
InPack(name) == \E key \in DOMAIN name_map : key[2] = name

\* C12: in a constructed VarMap, every field whose variable is not in the
\* pack is -1.
AbsentIsMinusOne ==
    m # <<>> =>
        \A f \in DOMAIN FieldVariable : ~InPack(FieldVariable[f]) => m[f] = -1

---------------------------------------------------------------------------
(* The storage each par_for iteration of FluxCT, FluxCT2D, FixPolarFlux    *)
(* and Flux::FOFC touches.  A location is <<array, block, slot, k, j, i>>; *)
(* the slot is the component of cons.B for the fluxes F1, F2, F3, the      *)
(* direction for cmax, cmin and the fluxes of U_all, 0 otherwise.  An      *)
(* iteration is <<b, k, j, i>>; the per-block kernels run on block 0.      *)

Loc(array, b, slot, k, j, i) == <<array, b, slot, k, j, i>>

\* a faulty variant: the EMF kernel stops at the last interior index
InEmf_InteriorOnly(k, j, i) ==
    IF ndim = 2 THEN InBox(k, j, i, 0, 0, js, je, is, ie)
                ELSE InBox(k, j, i, ks, ke, js, je, is, ie)

\* the index box of "flux_ct_emf" of FluxCT and of FluxCT2D
InEmf(k, j, i) ==
    IF ndim = 2 THEN InBox(k, j, i, 0, 0, js, je + 1, is, ie + 1)
                ELSE InBox(k, j, i, ks, ke + 1, js, je + 1, is, ie + 1)

\* "flux_ct_emf": FluxCT2D fills emf(j, i), FluxCT emf3, emf2, emf1(k, j, i)
EmfWrites(c) ==
    IF ndim = 2 THEN {Loc("emf", c[1], 0, 0, c[3], c[4])}
    ELSE {Loc(e, c[1], 0, c[2], c[3], c[4]) : e \in {"emf1", "emf2", "emf3"}}

EmfReads(c) ==
    LET b == c[1]
        k == c[2]
        j == c[3]
        i == c[4]
        for3 == {Loc("F1", b, B2, k, j, i), Loc("F1", b, B2, k, j - 1, i),
                 Loc("F2", b, B1, k, j, i), Loc("F2", b, B1, k, j, i - 1)}
        for2 == {Loc("F1", b, B3, k, j, i), Loc("F1", b, B3, k - 1, j, i),
                 Loc("F3", b, B1, k, j, i), Loc("F3", b, B1, k, j, i - 1)}
        for1 == {Loc("F2", b, B3, k, j, i), Loc("F2", b, B3, k - 1, j, i),
                 Loc("F3", b, B2, k, j, i), Loc("F3", b, B2, k, j - 1, i)}
    IN  IF ndim = 2 THEN for3 ELSE for3 \cup for2 \cup for1

\* the stores and loads of the statements on F1, on F2 and on F3 in the
\* rewrite kernels
CT1Writes(c) ==
    {Loc("F1", c[1], comp, c[2], c[3], c[4]) :
        comp \in (IF ndim = 2 THEN {B1, B2} ELSE Comps)}

CT1Reads(c) ==
    LET b == c[1]
        k == c[2]
        j == c[3]
        i == c[4]
    IN  IF ndim = 2
        THEN {Loc("emf", b, 0, 0, j, i), Loc("emf", b, 0, 0, j + 1, i)}
        ELSE {Loc("emf3", b, 0, k, j, i), Loc("emf3", b, 0, k, j + 1, i),
              Loc("emf2", b, 0, k, j, i), Loc("emf2", b, 0, k + 1, j, i)}

CT2Writes(c) ==
    {Loc("F2", c[1], comp, c[2], c[3], c[4]) :
        comp \in (IF ndim = 2 THEN {B1, B2} ELSE Comps)}

CT2Reads(c) ==
    LET b == c[1]
        k == c[2]
        j == c[3]
        i == c[4]
    IN  IF ndim = 2
        THEN {Loc("emf", b, 0, 0, j, i), Loc("emf", b, 0, 0, j, i + 1)}
        ELSE {Loc("emf3", b, 0, k, j, i), Loc("emf3", b, 0, k, j, i + 1),
              Loc("emf1", b, 0, k, j, i), Loc("emf1", b, 0, k + 1, j, i)}

CT3Writes(c) == {Loc("F3", c[1], comp, c[2], c[3], c[4]) : comp \in Comps}

CT3Reads(c) ==
    LET b == c[1]
        k == c[2]
        j == c[3]
        i == c[4]
    IN  {Loc("emf2", b, 0, k, j, i), Loc("emf2", b, 0, k, j, i + 1),
         Loc("emf1", b, 0, k, j, i), Loc("emf1", b, 0, k, j + 1, i)}

\* "fix_flux_b_l" at (k, js, i).  In 1D the store to row j-1 = -1 leaves the
\* block: it lands on F1(B1, k, 0, i) of the contiguous array (alias) or on
\* no element of it.
FixInnerWrites(c, alias) ==
    LET b == c[1]
        k == c[2]
        j == c[3]
        i == c[4]
    IN  {IF j - 1 < 0 /\ alias THEN Loc("F1", b, B1, k, j, i)
                               ELSE Loc("F1", b, B2, k, j - 1, i)}
        \cup (IF ndim > 1 THEN {Loc("F2", b, B2, k, j, i)} ELSE {})
        \cup (IF ndim > 2 THEN {Loc("F3", b, B2, k, j - 1, i)} ELSE {})

FixInnerReads(c) ==
    {Loc("F1", c[1], B2, c[2], js, c[4])}
    \cup (IF ndim > 2 THEN {Loc("F3", c[1], B2, c[2], js, c[4])} ELSE {})

\* "fix_flux_b_r" at (k, je_e, i)
FixOuterWrites(c) ==
    {Loc("F1", c[1], B2, c[2], c[3], c[4])}
    \cup (IF ndim > 1 THEN {Loc("F2", c[1], B2, c[2], c[3], c[4])} ELSE {})
    \cup (IF ndim > 2 THEN {Loc("F3", c[1], B2, c[2], c[3], c[4])} ELSE {})

FixOuterReads(c) ==
    {Loc("F1", c[1], B2, c[2], je, c[4])}
    \cup (IF ndim > 2 THEN {Loc("F3", c[1], B2, c[2], je, c[4])} ELSE {})

\* a faulty variant: the flag kernel consumes the flags it has tested
FlagWrites_ConsumesFlags(c) ==
    {Loc(f, c[1], 0, c[2], c[3], c[4]) : f \in {"fofcflag", "fflag", "pflag"}}

\* the flag kernel of Flux::FOFC at cell c
FlagWrites(c) == {Loc("fofcflag", c[1], 0, c[2], c[3], c[4])}

FlagReads(c) ==
    {Loc(f, c[1], 0, c[2], c[3], c[4]) : f \in {"fflag", "pflag"}}

\* a faulty variant: the face iteration marks the two bordering cells
\* itself instead of relying on a flag kernel
FaceWrites_MarksCells(c, dir) ==
    {Loc("fofcflag", c[1], 0, c[2], c[3], c[4]),
     Loc("fofcflag", c[1], 0, LowerK(dir, c[2]), LowerJ(dir, c[3]), LowerI(dir, c[4]))}
    \cup {Loc("U_all.flux", c[1], dir, c[2], c[3], c[4])}

\* the face kernel of direction dir of Flux::FOFC at face c: what the
\* branch of a flagged face stores
FaceWrites(c, dir) ==
    {Loc(t, c[1], 0, c[2], c[3], c[4]) : t \in {"Pl", "Pr", "Ul", "Ur", "Fl", "Fr"}}
    \cup {Loc(t, c[1], dir, c[2], c[3], c[4]) : t \in {"cmax", "cmin", "U_all.flux"}}

\* the face test loads fofcflag of both bordering cells, the branch the
\* primitives of both and the temporaries of the face itself
FaceReads(c, dir) ==
    LET b  == c[1]
        k  == c[2]
        j  == c[3]
        i  == c[4]
        kk == LowerK(dir, k)
        jj == LowerJ(dir, j)
        ii == LowerI(dir, i)
    IN  {Loc("fofcflag", b, 0, k, j, i), Loc("fofcflag", b, 0, kk, jj, ii),
         Loc("P", b, 0, k, j, i), Loc("P", b, 0, kk, jj, ii)}
        \cup {Loc(t, b, 0, k, j, i) : t \in {"Pl", "Pr", "Ul", "Ur", "Fl", "Fr"}}
        \cup {Loc(t, b, dir, k, j, i) : t \in {"cmax", "cmin"}}

\* the kernels a run of dimension ndim launches
FluxCTLaunches ==
    {[fn |-> "FluxCT", label |-> l, dir |-> 0, alias |-> FALSE] :
        l \in (IF ndim # 3 THEN {}
               ELSE IF fuse THEN {"flux_ct_emf", "flux_ct_all"}
               ELSE {"flux_ct_emf", "flux_ct_1", "flux_ct_2", "flux_ct_3"})}
    \cup {[fn |-> "FluxCT2D", label |-> l, dir |-> 0, alias |-> FALSE] :
        l \in (IF ndim # 2 THEN {}
               ELSE IF fuse THEN {"flux_ct_emf", "flux_ct_all"}
               ELSE {"flux_ct_emf", "flux_ct_1", "flux_ct_2"})}

FixPolarFluxLaunches ==
    {[fn |-> "FixPolarFlux", label |-> "fix_flux_b_l", dir |-> 0, alias |-> a] :
        a \in (IF boundary_flag[0].inner_x2 # "user" THEN {}
               ELSE IF js - 1 < 0 THEN BOOLEAN ELSE {FALSE})}
    \cup {[fn |-> "FixPolarFlux", label |-> "fix_flux_b_r", dir |-> 0, alias |-> FALSE] :
        x \in (IF boundary_flag[0].outer_x2 = "user" THEN {0} ELSE {})}

\* Flux::FOFC: the flag kernel (dir 0) and the face kernels of 1..ndim
FOFCLaunches ==
    {[fn |-> "FOFC", label |-> "fofc_replacement", dir |-> d, alias |-> FALSE] :
        d \in 0 .. ndim}

\* B_FluxCT::FluxCT(MeshData), bondi.cpp: the kernels run on every block of
\* the pack; nothing is launched if ndim < 2
MeshFluxCTLaunches ==
    {[fn |-> "FluxCTMesh", label |-> l, dir |-> 0, alias |-> FALSE] :
        l \in (IF ndim < 2 THEN {}
               ELSE IF fuse THEN {"flux_ct_emf", "flux_ct_all"}
               ELSE {"flux_ct_emf", "flux_ct_1", "flux_ct_2"}
                    \cup (IF ndim > 2 THEN {"flux_ct_3"} ELSE {}))}

MeshKIters(L) ==
    {c \in Blocks \X KK \X JJ \X II :
        CASE L.label = "flux_ct_emf" -> InL(c[2], c[3], c[4])
          [] L.label \in {"flux_ct_all", "flux_ct_1"} -> MeshInCT1(c[2], c[3], c[4])
          [] L.label = "flux_ct_2" -> MeshInCT2(c[2], c[3], c[4])
          [] L.label = "flux_ct_3" -> MeshInCT3(c[2], c[3], c[4])}

\* emf3 is filled in every dimension, emf2 and emf1 only if ndim > 2
MeshEmfWrites(c) ==
    {Loc(e, c[1], 0, c[2], c[3], c[4]) :
        e \in (IF ndim > 2 THEN {"emf1", "emf2", "emf3"} ELSE {"emf3"})}

\* the statements on F1, on F2 and on F3 of the mesh-wide rewrite kernels;
\* those on the B3 fluxes and on F3 are under if (ndim > 2)
MeshCTWrites(dir, c) ==
    {Loc(IF dir = 1 THEN "F1" ELSE IF dir = 2 THEN "F2" ELSE "F3",
         c[1], comp, c[2], c[3], c[4]) :
        comp \in (IF ndim > 2 THEN Comps ELSE {B1, B2})}

MeshCTReads(dir, c) ==
    LET b == c[1]
        k == c[2]
        j == c[3]
        i == c[4]
    IN  CASE dir = 1 ->
                {Loc("emf3", b, 0, k, j, i), Loc("emf3", b, 0, k, j + 1, i)}
                \cup (IF ndim > 2 THEN {Loc("emf2", b, 0, k, j, i),
                                        Loc("emf2", b, 0, k + 1, j, i)} ELSE {})
          [] dir = 2 ->
                {Loc("emf3", b, 0, k, j, i), Loc("emf3", b, 0, k, j, i + 1)}
                \cup (IF ndim > 2 THEN {Loc("emf1", b, 0, k, j, i),
                                        Loc("emf1", b, 0, k + 1, j, i)} ELSE {})
          [] dir = 3 -> CT3Reads(c)

MeshKWrites(L, c) ==
    CASE L.label = "flux_ct_emf" -> MeshEmfWrites(c)
      [] L.label = "flux_ct_all" ->
            MeshCTWrites(1, c) \cup MeshCTWrites(2, c)
            \cup (IF ndim > 2 THEN MeshCTWrites(3, c) ELSE {})
      [] L.label = "flux_ct_1" -> MeshCTWrites(1, c)
      [] L.label = "flux_ct_2" -> MeshCTWrites(2, c)
      [] L.label = "flux_ct_3" -> MeshCTWrites(3, c)

MeshKReads(L, c) ==
    CASE L.label = "flux_ct_emf" -> EmfReads(c)
      [] L.label = "flux_ct_all" ->
            MeshCTReads(1, c) \cup MeshCTReads(2, c)
            \cup (IF ndim > 2 THEN MeshCTReads(3, c) ELSE {})
      [] L.label = "flux_ct_1" -> MeshCTReads(1, c)
      [] L.label = "flux_ct_2" -> MeshCTReads(2, c)
      [] L.label = "flux_ct_3" -> MeshCTReads(3, c)

Launches ==
    FluxCTLaunches \cup MeshFluxCTLaunches \cup FixPolarFluxLaunches \cup FOFCLaunches

\* the index space of a launch
KIters(L) ==
    CASE L.fn = "FluxCTMesh" -> MeshKIters(L)
      [] L.label = "flux_ct_emf" ->
            {c \in {0} \X KK \X JJ \X II : InEmf(c[2], c[3], c[4])}
      [] L.label \in {"flux_ct_all", "flux_ct_1"} ->
            {c \in {0} \X KK \X JJ \X II :
                IF ndim = 2 THEN c[2] = 0 /\ InCT1_2D(c[3], c[4])
                            ELSE InCT1(c[2], c[3], c[4])}
      [] L.label = "flux_ct_2" ->
            {c \in {0} \X KK \X JJ \X II :
                IF ndim = 2 THEN c[2] = 0 /\ InCT2_2D(c[3], c[4])
                            ELSE InCT2(c[2], c[3], c[4])}
      [] L.label = "flux_ct_3" ->
            {c \in {0} \X KK \X JJ \X II : InCT3(c[2], c[3], c[4])}
      [] L.label = "fix_flux_b_l" -> {0} \X (ks .. ke_e) \X {js} \X (is .. (ie + 1))
      [] L.label = "fix_flux_b_r" -> {0} \X (ks .. ke_e) \X {je_e} \X (is .. (ie + 1))
      [] L.label = "fofc_replacement" ->
            IF L.dir = 0 THEN FlagRange ELSE FaceRange(L.dir)

\* the locations iteration c of launch L may store to
KWrites(L, c) ==
    CASE L.fn = "FluxCTMesh" -> MeshKWrites(L, c)
      [] L.label = "flux_ct_emf" -> EmfWrites(c)
      [] L.label = "flux_ct_all" ->
            CT1Writes(c) \cup CT2Writes(c) \cup (IF ndim > 2 THEN CT3Writes(c) ELSE {})
      [] L.label = "flux_ct_1" -> CT1Writes(c)
      [] L.label = "flux_ct_2" -> CT2Writes(c)
      [] L.label = "flux_ct_3" -> CT3Writes(c)
      [] L.label = "fix_flux_b_l" -> FixInnerWrites(c, L.alias)
      [] L.label = "fix_flux_b_r" -> FixOuterWrites(c)
      [] L.label = "fofc_replacement" ->
            IF L.dir = 0 THEN FlagWrites(c) ELSE FaceWrites(c, L.dir)

\* the locations iteration c of launch L may load from
KReads(L, c) ==
    CASE L.fn = "FluxCTMesh" -> MeshKReads(L, c)
      [] L.label = "flux_ct_emf" -> EmfReads(c)
      [] L.label = "flux_ct_all" ->
            CT1Reads(c) \cup CT2Reads(c) \cup (IF ndim > 2 THEN CT3Reads(c) ELSE {})
      [] L.label = "flux_ct_1" -> CT1Reads(c)
      [] L.label = "flux_ct_2" -> CT2Reads(c)
      [] L.label = "flux_ct_3" -> CT3Reads(c)
      [] L.label = "fix_flux_b_l" -> FixInnerReads(c)
      [] L.label = "fix_flux_b_r" -> FixOuterReads(c)
      [] L.label = "fofc_replacement" ->
            IF L.dir = 0 THEN FlagReads(c) ELSE FaceReads(c, L.dir)

\* a run: its dimension, its build, its blocks and the X2 boundaries
InitRace ==
    /\ ndim \in 1 .. 3
    /\ nblocks \in 1 .. MaxBlocks
    /\ fuse \in BOOLEAN
    /\ \E edge \in {"user", "outflow"} :
          boundary_flag = [b \in Blocks |-> [inner_x2 |-> edge, outer_x2 |-> edge]]
    /\ pin = [fix_polar_flux |-> "unset", disable_flux_ct |-> "unset"]
    /\ params = Initialize(pin)
    /\ F = <<>> /\ F0 = <<>> /\ Fin = <<>> /\ B = <<>> /\ Bpre = <<>>
    /\ pc = "idle" /\ via = "none" /\ fixed = FALSE /\ status = "none" /\ oob = FALSE
    /\ FOFCIdle /\ VarMapIdle /\ RaceIdle /\ DiagIdle /\ MoreIdle

\* a par_for is issued
R_Launch ==
    /\ launch = NoLaunch
    /\ \E L \in Launches :
          /\ launch' = L
          /\ iters' = KIters(L)
    /\ wlog' = {} /\ rlog' = {}
    /\ UNCHANGED <<ctvars, fofcvars, vmvars, diagvars, morevars>>

\* one more iteration of the kernel is recorded: <<location, iteration>> for
\* each store and each load.  What is recorded at the end does not depend on
\* the order the iterations are taken in.
R_Iter ==
    /\ launch # NoLaunch /\ iters # {}
    /\ LET c == CHOOSE x \in iters : TRUE
       IN  /\ wlog' = wlog \cup {<<l, c>> : l \in KWrites(launch, c)}
           /\ rlog' = rlog \cup {<<l, c>> : l \in KReads(launch, c)}
           /\ iters' = iters \ {c}
    /\ UNCHANGED <<ctvars, fofcvars, vmvars, diagvars, morevars, launch>>

\* the kernel has completed
R_Done ==
    /\ launch # NoLaunch /\ iters = {}
    /\ launch' = NoLaunch
    /\ wlog' = {} /\ rlog' = {}
    /\ UNCHANGED <<ctvars, fofcvars, vmvars, diagvars, morevars, iters>>

NextRace ==
    \/ R_Launch
    \/ R_Iter
    \/ R_Done

SpecRace == InitRace /\ [][NextRace]_vars

\* C15: within one kernel launch of FluxCT, FluxCT2D, FixPolarFlux and
\* Flux::FOFC, no location is stored to by two iterations, and a location
\* some iteration loads is stored to by that iteration or by none.
RaceFree ==
    LET written == {w[1] : w \in wlog}
    IN  /\ Cardinality(written) = Cardinality(wlog)
        /\ \A r \in rlog : r[1] \in written => r \in wlog

\* the fused rewrite kernel of a 3D FluxCT, all iterations recorded: two
\* iterations have loaded the same EMF, every iteration has stored its fluxes
RaceFreeWitness ==
    /\ launch.fn = "FluxCT" /\ launch.label = "flux_ct_all" /\ iters = {}
    /\ \E r1 \in rlog, r2 \in rlog : r1[1] = r2[1] /\ r1[2] # r2[2]
    /\ \A c \in KIters(launch) : <<Loc("F1", 0, B2, c[2], c[3], c[4]), c>> \in wlog
    /\ Cardinality(wlog) = 9 * Cardinality(KIters(launch))

---------------------------------------------------------------------------
(* B_FluxCT::MaxDivB(md, domain) on any IndexDomain, and its caller         *)
(* PostStepDiagnostics.  A read of cons.B is <<b, comp, k, j, i>>.          *)

Domains == {"interior", "entire"}

\* pmb->cellbounds.is(domain) .. ke(domain)
BoundsOf(d) ==
    IF d = "interior"
    THEN [is |-> is, ie |-> ie, js |-> js, je |-> je, ks |-> ks, ke |-> ke]
    ELSE [is |-> 0, ie |-> n1 - 1, js |-> 0, je |-> n2 - 1, ks |-> 0, ke |-> n3 - 1]

\* the cells of a domain
DomainCells(d) ==
    LET r == BoundsOf(d)
    IN  (r.ks .. r.ke) \X (r.js .. r.je) \X (r.is .. r.ie)

\* the index space of "divB_max": is += 1, js += 1, and ks += 1 in 3D
DivCornersOn(d) ==
    LET r == BoundsOf(d)
    IN  ((IF ndim > 2 THEN r.ks + 1 ELSE r.ks) .. r.ke)
        \X ((r.js + 1) .. r.je) \X ((r.is + 1) .. r.ie)

\* a faulty variant: a forward stencil, one cell up instead of one down
StencilCells_Forward(c) ==
    (IF ndim > 2 THEN {c[1], c[1] + 1} ELSE {c[1]})
    \X {c[2], c[2] + 1} \X {c[3], c[3] + 1}

\* the cells the terms of corner c index: k and k-1 (3D only), j and j-1,
\* i and i-1
StencilCells(c) ==
    (IF ndim > 2 THEN {c[1], c[1] - 1} ELSE {c[1]})
    \X {c[2], c[2] - 1} \X {c[3], c[3] - 1}

\* the elements of cons.B the reduction loads
DivReadsOn(d) ==
    IF ndim < 2 THEN {}
    ELSE {<<b, comp, x[1], x[2], x[3]>> :
            b \in Blocks,
            comp \in (IF ndim > 2 THEN Comps ELSE {B1, B2}),
            x \in UNION {StencilCells(c) : c \in DivCornersOn(d)}}

\* the value returned
MaxDivBOn(Bm, d) ==
    IF ndim < 2 THEN 0
    ELSE SetMax({LocalDivB(Bm[b], c[1], c[2], c[3]) : b \in Blocks, c \in DivCornersOn(d)})

\* cons.B with every cell outside domain d cleared
Masked(Bm, d) ==
    [b \in Blocks |-> [comp \in Comps |-> [k \in KK |-> [j \in JJ |-> [i \in II |->
        IF <<k, j, i>> \in DomainCells(d) THEN Bm[b][comp][k][j][i] ELSE 0]]]]]

\* the cells next to the lower and the upper corner of the interior, on
\* either side of the edge
EdgeCells ==
    (({ks - 1, ks} \X {js - 1, js} \X {is - 1, is})
     \cup ({ke, ke + 1} \X {je, je + 1} \X {ie, ie + 1}))
    \cap (KK \X JJ \X II)

\* the fields MaxDivB is called on: the divergence-free field, alone or
\* with one element of block 0 raised
DiagFields ==
    {InitB} \cup
    {[InitB EXCEPT ![0][comp][c[1]][c[2]][c[3]] = @ + Unit] :
        comp \in Comps, c \in EdgeCells}

InitDiag ==
    /\ ndim \in 1 .. 3
    /\ nblocks \in 1 .. MaxBlocks
    /\ boundary_flag = [b \in Blocks |-> [inner_x2 |-> "outflow", outer_x2 |-> "outflow"]]
    /\ pin = [fix_polar_flux |-> "unset", disable_flux_ct |-> "unset"]
    /\ params = Initialize(pin)
    /\ fuse = FALSE
    /\ B \in DiagFields
    /\ Bpre = B
    /\ F = <<>> /\ F0 = <<>> /\ Fin = <<>>
    /\ pc = "idle" /\ via = "none" /\ fixed = FALSE /\ status = "none" /\ oob = FALSE
    /\ FOFCIdle /\ VarMapIdle /\ RaceIdle /\ MoreIdle
    /\ DiagIdle

\* MaxDivB(md, d): loads cons.B, returns the maximum, stores nothing
CallMaxDivB(d) ==
    /\ domain' = d
    /\ max_divb' = MaxDivBOn(B, d)
    /\ divreads' = DivReadsOn(d)
    /\ UNCHANGED <<ctvars, fofcvars, vmvars, racevars, morevars>>

\* PostStepDiagnostics: the interior, "the physical grid"
PostStepDiagnostics ==
    /\ domain = "none"
    /\ CallMaxDivB("interior")

\* a call for another domain
MaxDivBOfDomain ==
    /\ domain = "none"
    /\ \E d \in Domains \ {"interior"} : CallMaxDivB(d)

NextDiag ==
    \/ PostStepDiagnostics
    \/ MaxDivBOfDomain

SpecDiag == InitDiag /\ [][NextDiag]_vars

\* C16: a call of MaxDivB leaves cons.B as it was, loads only elements of
\* cons.B whose cell lies in the domain it was given (4 cells per corner in
\* 2D, 8 in 3D), and so returns what it returns for the field with every
\* cell outside the domain cleared.
DivBReadsInsideDomain ==
    domain # "none" =>
        /\ B = Bpre
        /\ \A r \in divreads : <<r[3], r[4], r[5]>> \in DomainCells(domain)
        /\ \A c \in DivCornersOn(domain) :
              ndim >= 2 => Cardinality(StencilCells(c)) = (IF ndim > 2 THEN 8 ELSE 4)
        /\ max_divb = MaxDivBOn(Masked(B, domain), domain)

\* a 3D call for the interior on a field that is raised in a ghost cell
\* only: the lowest interior cell is loaded, the result is still 0
DivBReadsInsideDomainWitness ==
    /\ domain = "interior" /\ ndim = 3
    /\ <<0, B3, ks, js, is>> \in divreads
    /\ B # InitB /\ Masked(B, "interior") = Masked(InitB, "interior")
    /\ max_divb = 0

---------------------------------------------------------------------------
(* GetPhysicalZones(pmb, bounds): the zones set by computation or halo    *)
(* exchange rather than by a problem boundary condition                    *)

Faces == {"inner_x1", "outer_x1", "inner_x2", "outer_x2", "inner_x3", "outer_x3"}

\* the boundary flags a face of a block may carry
FaceFlags == {"user", "block", "periodic"}

\* KBoundaries::IsPhysicalBoundary: the face is neither joined to another
\* block nor periodic
IsPhysicalBoundary(flags, face) == flags[face] \notin {"block", "periodic"}

\* a faulty variant: the two bounds change places
PhysicalBound_Swapped(physical, interior, entire) ==
    IF physical THEN entire ELSE interior

\* IsPhysicalBoundary(pmb, face) ? bounds.x(interior) : bounds.x(entire)
PhysicalBound(physical, interior, entire) ==
    IF physical THEN interior ELSE entire

GetPhysicalZones(flags) ==
    LET int == BoundsOf("interior")
        ent == BoundsOf("entire")
    IN  [is |-> PhysicalBound(IsPhysicalBoundary(flags, "inner_x1"), int.is, ent.is),
         ie |-> PhysicalBound(IsPhysicalBoundary(flags, "outer_x1"), int.ie, ent.ie),
         js |-> PhysicalBound(IsPhysicalBoundary(flags, "inner_x2"), int.js, ent.js),
         je |-> PhysicalBound(IsPhysicalBoundary(flags, "outer_x2"), int.je, ent.je),
         ks |-> PhysicalBound(IsPhysicalBoundary(flags, "inner_x3"), int.ks, ent.ks),
         ke |-> PhysicalBound(IsPhysicalBoundary(flags, "outer_x3"), int.ke, ent.ke)]

\* a block of a 1D, 2D or 3D mesh with any flags on its six faces
InitZones ==
    /\ ndim \in 1 .. 3
    /\ nblocks = 1
    /\ CTIdle /\ FOFCIdle /\ VarMapIdle /\ RaceIdle /\ DiagIdle
    /\ TraceIdle /\ ProbIdle
    /\ face_flag \in [Faces -> FaceFlags]
    /\ zones = <<>>

CallGetPhysicalZones ==
    /\ zones = <<>>
    /\ zones' = GetPhysicalZones(face_flag)
    /\ UNCHANGED <<ctvars, fofcvars, vmvars, racevars, diagvars, tracevars, probvars,
                   face_flag>>

NextZones == CallGetPhysicalZones

SpecZones == InitZones /\ [][NextZones]_vars

\* the bound of the interior and of the entire block on the side of a face
SideBound(d, face) ==
    LET r == BoundsOf(d)
    IN  CASE face = "inner_x1" -> r.is [] face = "outer_x1" -> r.ie
          [] face = "inner_x2" -> r.js [] face = "outer_x2" -> r.je
          [] face = "inner_x3" -> r.ks [] face = "outer_x3" -> r.ke

\* the bound GetPhysicalZones returned on the side of a face
ZoneBound(face) ==
    CASE face = "inner_x1" -> zones.is [] face = "outer_x1" -> zones.ie
      [] face = "inner_x2" -> zones.js [] face = "outer_x2" -> zones.je
      [] face = "inner_x3" -> zones.ks [] face = "outer_x3" -> zones.ke

\* C22: on each of the six faces separately GetPhysicalZones returns the
\* interior bound if the face is a physical boundary and the bound of the
\* entire block otherwise; the range returned contains the interior range
\* and lies in the entire range.
PhysicalZonesPerFace ==
    zones # <<>> =>
        /\ \A face \in Faces :
              ZoneBound(face) = (IF face_flag[face] \in {"block", "periodic"}
                                 THEN SideBound("entire", face)
                                 ELSE SideBound("interior", face))
        /\ DomainCells("interior") \subseteq
              ((zones.ks .. zones.ke) \X (zones.js .. zones.je) \X (zones.is .. zones.ie))
        /\ ((zones.ks .. zones.ke) \X (zones.js .. zones.je) \X (zones.is .. zones.ie))
              \subseteq DomainCells("entire")

\* a 3D block with a problem boundary at inner_x1 and outer_x2 only: the
\* range ends at the interior there and takes in the ghosts elsewhere
PhysicalZonesPerFaceWitness ==
    /\ zones # <<>> /\ ndim = 3
    /\ face_flag["inner_x1"] = "user" /\ face_flag["outer_x1"] = "block"
    /\ face_flag["inner_x2"] = "periodic" /\ face_flag["outer_x2"] = "user"
    /\ face_flag["inner_x3"] = "block" /\ face_flag["outer_x3"] = "block"
    /\ zones.is = is /\ zones.ie = n1 - 1
    /\ zones.js = 0 /\ zones.je = je
    /\ zones.ks = 0 /\ zones.ke = n3 - 1

---------------------------------------------------------------------------
(* The execution trace under TRACE: Flag(label) and EndFlag(), part_001.   *)
(* The globals kharma_debug_trace_indent and kharma_debug_trace_mutex are  *)
(* plain ints shared by all threads of rank 0.                             *)

MAX_INDENT_SPACES == 160

Min(a, b) == IF a < b THEN a ELSE b

\* the values the indent may have when a thread first traces
IndentEntries ==
    {-2, 0, MAX_INDENT_SPACES \div 2 - 1, MAX_INDENT_SPACES \div 2,
     MAX_INDENT_SPACES + 40}

\* indent = m::max(m::min(indent, MAX_INDENT_SPACES/2), 0)
ClampIndent(x) == Max(Min(x, MAX_INDENT_SPACES \div 2), 0)

\* indent = m::min(indent++, MAX_INDENT_SPACES/2): the argument is the value
\* before the increment, and the assignment of the result comes after the
\* increment has been stored, so the increment is lost
FlagNewIndent(x) == Min(x, MAX_INDENT_SPACES \div 2)

\* indent = m::min(m::max(indent--, 0), MAX_INDENT_SPACES/2): likewise the
\* decrement is lost
EndFlagNewIndent(x) == Min(Max(x, 0), MAX_INDENT_SPACES \div 2)

\* for (i = 0; i < indent; i++) tab[i*2] = tab[i*2+1] = ' ': the number of
\* bytes of tab stored to, counted from tab[0]
TabFill(x) == IF x > 0 THEN 2 * x ELSE 0

InitTrace ==
    /\ ndim = 1
    /\ nblocks = 1
    /\ CTIdle /\ FOFCIdle /\ VarMapIdle /\ RaceIdle /\ DiagIdle
    /\ ZonesIdle /\ ProbIdle
    /\ indent \in IndentEntries
    /\ indent0 = indent
    /\ mutex = 0
    /\ \E n \in 1 .. MaxThreads :
          /\ tpc = [t \in 1 .. n |-> "out"]
          /\ tfn = [t \in 1 .. n |-> "none"]
          /\ depth = [t \in 1 .. n |-> 0]
    /\ tabfill = -1
    /\ unmatched = FALSE

\* what a step of the trace leaves alone
TraceFrame == UNCHANGED <<ctvars, fofcvars, vmvars, racevars, diagvars, zonevars,
                          probvars, indent0>>

\* thread t calls Flag or EndFlag
T_Call(t) ==
    /\ tpc[t] = "out"
    /\ \E fn \in {"Flag", "EndFlag"} :
          /\ fn = "Flag" => depth[t] < MaxDepth
          /\ tfn' = [tfn EXCEPT ![t] = fn]
          /\ unmatched' = (unmatched \/ (fn = "EndFlag" /\ depth[t] = 0))
    /\ tpc' = [tpc EXCEPT ![t] = "spin"]
    /\ UNCHANGED <<indent, mutex, depth, tabfill>>
    /\ TraceFrame

\* while (mutex != 0); the loop ends on reading 0
T_Spin(t) ==
    /\ tpc[t] = "spin"
    /\ mutex = 0
    /\ tpc' = [tpc EXCEPT ![t] = "take"]
    /\ UNCHANGED <<indent, mutex, tfn, depth, tabfill, unmatched>>
    /\ TraceFrame

\* the loop has no side effect and reads a plain int another thread writes:
\* a build may take it to terminate and drop the test
T_SpinElided(t) ==
    /\ tpc[t] = "spin"
    /\ mutex # 0
    /\ tpc' = [tpc EXCEPT ![t] = "take"]
    /\ UNCHANGED <<indent, mutex, tfn, depth, tabfill, unmatched>>
    /\ TraceFrame

\* mutex = 1
T_Take(t) ==
    /\ tpc[t] = "take"
    /\ mutex' = 1
    /\ tpc' = [tpc EXCEPT ![t] = "body"]
    /\ UNCHANGED <<indent, tfn, depth, tabfill, unmatched>>
    /\ TraceFrame

\* the statements between taking and releasing the mutex
T_Body(t) ==
    /\ tpc[t] = "body"
    /\ IF tfn[t] = "Flag"
       THEN /\ tabfill' = TabFill(ClampIndent(indent))
            /\ indent' = FlagNewIndent(ClampIndent(indent))
       ELSE /\ indent' = EndFlagNewIndent(indent)
            /\ tabfill' = TabFill(EndFlagNewIndent(indent))
    /\ tpc' = [tpc EXCEPT ![t] = "release"]
    /\ UNCHANGED <<mutex, tfn, depth, unmatched>>
    /\ TraceFrame

\* mutex = 0, and the call returns
T_Release(t) ==
    /\ tpc[t] = "release"
    /\ mutex' = 0
    /\ depth' = [depth EXCEPT ![t] = IF tfn[t] = "Flag" THEN @ + 1 ELSE Max(@ - 1, 0)]
    /\ tpc' = [tpc EXCEPT ![t] = "out"]
    /\ UNCHANGED <<indent, tfn, tabfill, unmatched>>
    /\ TraceFrame

NextTrace ==
    \/ \E t \in DOMAIN tpc : T_Call(t)
    \/ \E t \in DOMAIN tpc : T_Spin(t)
    \/ \E t \in DOMAIN tpc : T_SpinElided(t)
    \/ \E t \in DOMAIN tpc : T_Take(t)
    \/ \E t \in DOMAIN tpc : T_Body(t)
    \/ \E t \in DOMAIN tpc : T_Release(t)

SpecTrace == InitTrace /\ [][NextTrace]_vars

\* C23: at most one thread at a time is between taking the trace mutex and
\* releasing it.
TraceMutualExclusion ==
    Cardinality({t \in DOMAIN tpc : tpc[t] \in {"body", "release"}}) <= 1

\* C24: with one thread tracing from indent 0 and every EndFlag matching an
\* open Flag, between calls the indent equals the number of open Flag calls
\* (up to MAX_INDENT_SPACES/2), so it is back at 0 when all are matched.
IndentIsNestingDepth ==
    (DOMAIN tpc = {1} /\ indent0 = 0 /\ ~unmatched /\ tpc[1] = "out") =>
        indent = Min(depth[1], MAX_INDENT_SPACES \div 2)

\* C25: whatever the indent was at entry and whatever calls were made, the
\* spaces a print stores into tab stay inside its MAX_INDENT_SPACES bytes
\* and leave at least the last byte 0, the indent printed lying in
\* 0..MAX_INDENT_SPACES/2.
IndentFitsTab ==
    tabfill # -1 =>
        /\ tabfill \in 0 .. (MAX_INDENT_SPACES - 1)
        /\ indent \in 0 .. (MAX_INDENT_SPACES \div 2)

---------------------------------------------------------------------------
(* InitializeBondi (bondi.cpp) and InitializeFMTorus (fm_torus.cpp): the   *)
(* parameters they add to the packages GRMHD and B_FluxCT.  The driver     *)
(* calls the initialiser once for every mesh block; the packages are       *)
(* shared by the blocks.  pkgparams is a set of <<key, value>>.            *)

ParamKeys == {"mdot", "rs", "rin_bondi", "rho_norm", "bg_rate", "bg_start_t"}

\* the values the input file gives, or the defaults of GetOrAddReal
ProblemInputs ==
    [mdot : {1, 2}, rs : {8, 9}, r_in : {2, 3}, bg_rate : {5, 6},
     bg_start_t : {2500, 3000}]

\* rho_max of the block of the n-th call: every block has its own maximum
RhoMaxOf(n) == 10 * n

\* Params::hasKey
HasKey(ps, key) == \E e \in ps : e[1] = key

\* Params::Add and StateDescriptor::AddParam on st = [params, nadd, thrown]:
\* a key that exists already makes Add throw, which ends the initialiser
Add(st, key, value) ==
    IF st.thrown THEN st
    ELSE IF HasKey(st.params, key)
    THEN [st EXCEPT !.nadd[key] = @ + 1, !.thrown = TRUE]
    ELSE [st EXCEPT !.params = @ \cup {<<key, value>>}, !.nadd[key] = @ + 1]

\* if (!AllParams().hasKey(key)) Add(key, value)
AddIfAbsent(st, key, value) ==
    IF st.thrown \/ HasKey(st.params, key) THEN st ELSE Add(st, key, value)

\* the part of InitializeBondi that registers parameters
InitializeBondiParams(st, input) ==
    AddIfAbsent(AddIfAbsent(AddIfAbsent(st, "mdot", input.mdot),
                            "rs", input.rs),
                "rin_bondi", input.r_in)

\* the part of InitializeFMTorus that registers parameters
InitializeFMTorusParams(st, input, bg, rho_max) ==
    LET afterBG == IF bg THEN Add(Add(st, "bg_rate", input.bg_rate),
                                  "bg_start_t", input.bg_start_t)
                         ELSE st
    IN  AddIfAbsent(afterBG, "rho_norm", rho_max)

InitProb ==
    /\ ndim = 1
    /\ nblocks = 1
    /\ CTIdle /\ FOFCIdle /\ VarMapIdle /\ RaceIdle /\ DiagIdle
    /\ ZonesIdle /\ TraceIdle
    /\ prob \in {"bondi", "fm_torus"}
    /\ do_BG \in (IF prob = "fm_torus" THEN BOOLEAN ELSE {FALSE})
    /\ ppin \in ProblemInputs
    /\ pkgparams = {}
    /\ nadd = [key \in ParamKeys |-> 0]
    /\ thrown = FALSE
    /\ ninit = 0

\* what a problem initialiser leaves alone
ProbFrame == UNCHANGED <<ctvars, fofcvars, vmvars, racevars, diagvars, zonevars,
                         tracevars, prob, do_BG, ppin>>

\* InitializeBondi on the next block
InitializeBondi ==
    /\ prob = "bondi" /\ ~thrown /\ ninit < MaxInit
    /\ LET st == InitializeBondiParams(
                    [params |-> pkgparams, nadd |-> nadd, thrown |-> FALSE], ppin)
       IN  pkgparams' = st.params /\ nadd' = st.nadd /\ thrown' = st.thrown
    /\ ninit' = ninit + 1
    /\ ProbFrame

\* InitializeFMTorus on the next block
InitializeFMTorus ==
    /\ prob = "fm_torus" /\ ~thrown /\ ninit < MaxInit
    /\ LET st == InitializeFMTorusParams(
                    [params |-> pkgparams, nadd |-> nadd, thrown |-> FALSE],
                    ppin, do_BG, RhoMaxOf(ninit + 1))
       IN  pkgparams' = st.params /\ nadd' = st.nadd /\ thrown' = st.thrown
    /\ ninit' = ninit + 1
    /\ ProbFrame

NextProb ==
    \/ InitializeBondi
    \/ InitializeFMTorus

SpecProb == InitProb /\ [][NextProb]_vars

\* the keys the problem registers, with the value of the first call
Registered ==
    IF prob = "bondi"
    THEN {<<"mdot", ppin.mdot>>, <<"rs", ppin.rs>>, <<"rin_bondi", ppin.r_in>>}
    ELSE {<<"rho_norm", RhoMaxOf(1)>>}
         \cup (IF do_BG THEN {<<"bg_rate", ppin.bg_rate>>,
                              <<"bg_start_t", ppin.bg_start_t>>}
                        ELSE {})

\* C29: after any number of calls of the problem initialiser, no call has
\* added a key that existed already, and every parameter the problem
\* registers has been added exactly once and holds the value of the first
\* call.
ParamsAddedOnce ==
    ninit >= 1 =>
        /\ ~thrown
        /\ pkgparams = Registered
        /\ \A e \in Registered : nadd[e[1]] = 1

\* the fofcflag entries the flag kernel of a Flux::FOFC call covers
FlagCovered == UNION {FlagWrites(c) : c \in FlagRange}

EmfStored ==
    LET E == [launch EXCEPT !.label = "flux_ct_emf"]
    IN  UNION {KWrites(E, c) : c \in KIters(E)}

\* C27: in a build with un-fused kernels, every entry a rewrite kernel
\* "flux_ct_1", "flux_ct_2" or "flux_ct_3" of FluxCT, FluxCT2D or the
\* mesh-wide FluxCT loads is an EMF entry the EMF kernel of the same call
\* has stored.
EmfDefinedBeforeUse ==
    (/\ launch.fn \in {"FluxCT", "FluxCT2D", "FluxCTMesh"}
     /\ launch.label \in {"flux_ct_1", "flux_ct_2", "flux_ct_3"}) =>
        LET stored == EmfStored
        IN  \A r \in rlog : r[1] \in stored

\* a rewrite kernel of each of the three variants has run to its end and
\* has loaded an entry on the upper edge of the box of the EMF kernel
EmfDefinedBeforeUseWitness ==
    /\ ~fuse /\ iters = {} /\ rlog # {}
    /\ \/ /\ launch.fn = "FluxCT" /\ launch.label = "flux_ct_3"
          /\ \E r \in rlog : r[1] = Loc("emf1", 0, 0, ke + 1, je + 1, is)
       \/ /\ launch.fn = "FluxCT2D" /\ launch.label = "flux_ct_2"
          /\ \E r \in rlog : r[1] = Loc("emf", 0, 0, 0, je + 1, ie + 1)
       \/ /\ launch.fn = "FluxCTMesh" /\ launch.label = "flux_ct_1"
          /\ \E r \in rlog : r[1] = Loc("emf3", nblocks - 1, 0, ke, je + 1, il_e)

\* the flux entries F(dir)(comp, k, j, i) the per-block FluxCT stores to
\* (FluxCT2D in 2D: the B1 and B2 fluxes at k = 0)
BlockWrites(dir, comp, k, j, i) ==
    IF ndim = 2
    THEN /\ k = 0 /\ comp \in {B1, B2}
         /\ IF dir = 1 THEN InCT1_2D(j, i) ELSE InCT2_2D(j, i)
    ELSE CASE dir = 1 -> InCT1(k, j, i)
           [] dir = 2 -> InCT2(k, j, i)
           [] dir = 3 -> InCT3(k, j, i)

\* C28: on a mesh of a single block and from the same fluxes, the mesh-wide
\* FluxCT and the per-block FluxCT (FluxCT2D in 2D) leave the same value in
\* every flux entry the per-block version stores to.
MeshAgreesWithBlock ==
    (CTDone /\ nblocks = 1 /\ ndim >= 2) =>
        LET other == IF via = "mesh" THEN FluxCT(Fin[0]) ELSE MeshFluxCT(Fin)[0]
        IN  \A dir \in Dirs, comp \in Comps, k \in KK, j \in JJ, i \in II :
                BlockWrites(dir, comp, k, j, i) =>
                    F[0][dir][comp][k][j][i] = other[dir][comp][k][j][i]

\* the arrays Flux::FOFC may store to: fofcflag, the flux temporaries and
\* the flux slots of the conserved pack
FOFCTargets ==
    {"fofcflag", "Pl", "Pr", "Ul", "Ur", "Fl", "Fr", "cmax", "cmin", "U_all.flux"}

\* C30: whatever the flags, no iteration of a kernel of Flux::FOFC stores to
\* the cell-centred primitives P, to the cell-centred conserved values
\* U_all, to fflag or to pflag: every store goes to fofcflag, to a flux
\* temporary or to a flux slot.
FOFCStoresOnlyFluxes ==
    launch.fn = "FOFC" =>
        \A w \in wlog :
            /\ w[1][1] \notin {"P", "U_all", "fflag", "pflag"}
            /\ w[1][1] \in FOFCTargets

\* a face kernel has run to its end: it has loaded primitives and flags of
\* cells and stored fluxes; a flag kernel has loaded fflag and stored
\* fofcflag
FOFCStoresOnlyFluxesWitness ==
    /\ launch.fn = "FOFC" /\ iters = {}
    /\ \/ /\ launch.dir = ndim
          /\ \E r \in rlog : r[1][1] = "P"
          /\ \E w \in wlog : w[1][1] = "U_all.flux" /\ w[1][3] = ndim
       \/ /\ launch.dir = 0
          /\ \E r \in rlog : r[1][1] = "fflag"
          /\ \E w \in wlog : w[1][1] = "fofcflag"

============================================================================
